---------------------------- MODULE Spec2Model ----------------------------
(***************************************************************************)
(* The dictation pipeline of local-transcribe: the Controller's state      *)
(* machine (toggle_recording, cancel_recording, the helper threads it      *)
(* spawns and the thread that waits for the final transcription), the ASR  *)
(* worker and the MT worker with their mailboxes and response channels,    *)
(* the startup model load, the vocabulary engine and the history file.     *)
(*                                                                         *)
(* Texts are sequences of one-character strings.  Option<T> is a sequence  *)
(* of length 0 (None) or 1 (Some).  A request's "rec" field and a          *)
(* response's "rec" field are bookkeeping: they name the recording whose   *)
(* audio the request carries; the program never reads them.                *)
(***************************************************************************)
EXTENDS Integers, Sequences, FiniteSets, TLC

(* ------------------------------ bounds --------------------------------- *)

\* recordings started (Idle -> Recording) in one run
MaxRec == 2
\* recordings in a run that also follows the translation, or the ticker and the partial loop
MaxRecWide == 1
\* TranscribePartial requests sent by the partial loops in one run
MaxPartials == 2
\* raw samples the capture callback appends to one buffer
MaxBuf == 1
\* largest elapsed time (in ticks) the duration ticker reports
MaxDur == 1
\* requests waiting in the MT worker's mailbox
MaxMtQueue == 2

\* deletions are followed this far from the full and from the empty history
MaxDel == 1

(* ------------------------- program constants --------------------------- *)

TargetRate == 16000
MAX_HISTORY_ENTRIES == 50

Recs == 1..MaxRec

(* ------------------------------- text ---------------------------------- *)

LowerChars == <<"a","b","c","d","e","f","g","h","i","j","k","l","m",
                "n","o","p","q","r","s","t","u","v","w","x","y","z">>
UpperChars == <<"A","B","C","D","E","F","G","H","I","J","K","L","M",
                "N","O","P","Q","R","S","T","U","V","W","X","Y","Z">>
Digits == {"0","1","2","3","4","5","6","7","8","9"}

IsLower(c) == \E i \in 1..26 : LowerChars[i] = c
IsUpper(c) == \E i \in 1..26 : UpperChars[i] = c
IsAlphabetic(c) == IsLower(c) \/ IsUpper(c)
IsWordChar(c) == IsAlphabetic(c) \/ c \in Digits \/ c = "_"
IsSpace(c) == c = " "

ToUpperChar(c) == IF IsLower(c) THEN UpperChars[CHOOSE i \in 1..26 : LowerChars[i] = c] ELSE c
ToLowerChar(c) == IF IsUpper(c) THEN LowerChars[CHOOSE i \in 1..26 : UpperChars[i] = c] ELSE c
ToUpper(s) == [i \in 1..Len(s) |-> ToUpperChar(s[i])]

RECURSIVE TrimStart(_)
TrimStart(s) == IF s # <<>> /\ IsSpace(Head(s)) THEN TrimStart(Tail(s)) ELSE s
RECURSIVE TrimEnd(_)
TrimEnd(s) == IF s # <<>> /\ IsSpace(s[Len(s)]) THEN TrimEnd(SubSeq(s, 1, Len(s) - 1)) ELSE s
\* str::trim
Trim(s) == TrimEnd(TrimStart(s))

(* --------------------------- audio/resampler --------------------------- *)

\* length of resample(input, from_rate, to_rate) for an input of n samples, for the
\* rates of the modelled devices: from_rate / to_rate is 1 or 3, exact in f64
ResampleLen(n, from_rate, to_rate) ==
    IF from_rate = to_rate \/ n = 0 THEN n ELSE (n * to_rate) \div from_rate

(* ------------------------------ vocabulary ----------------------------- *)

\* variant: an all-uppercase match is treated like a capitalized one
apply_case_first_only(matched, replacement) ==
    IF matched # <<>> /\ IsUpper(matched[1])
    THEN IF replacement = <<>> THEN <<>>
         ELSE <<ToUpperChar(replacement[1])>> \o Tail(replacement)
    ELSE replacement

\* apply_case(matched, replacement)
apply_case(matched, replacement) ==
    IF (\A i \in 1..Len(matched) : ~IsAlphabetic(matched[i]) \/ IsUpper(matched[i]))
       /\ (\E i \in 1..Len(matched) : IsAlphabetic(matched[i]))
    THEN ToUpper(replacement)
    ELSE IF matched # <<>> /\ IsUpper(matched[1])
         THEN IF replacement = <<>> THEN <<>>
              ELSE <<ToUpperChar(replacement[1])>> \o Tail(replacement)
         ELSE replacement

\* \b at the gap before position i of s (positions 1..Len(s)+1)
WordBoundary(s, i) ==
    LET before == i > 1 /\ IsWordChar(s[i - 1])
        after == i <= Len(s) /\ IsWordChar(s[i])
    IN before # after

\* variant: (?i)<phrase>, without the word boundaries
MatchesAnywhere(s, phrase, i) ==
    /\ i + Len(phrase) - 1 <= Len(s)
    /\ \A k \in 1..Len(phrase) : ToLowerChar(s[i + k - 1]) = ToLowerChar(phrase[k])

\* (?i)\b<phrase>\b matches s at position i
MatchesAt(s, phrase, i) ==
    /\ i + Len(phrase) - 1 <= Len(s)
    /\ \A k \in 1..Len(phrase) : ToLowerChar(s[i + k - 1]) = ToLowerChar(phrase[k])
    /\ WordBoundary(s, i)
    /\ WordBoundary(s, i + Len(phrase))

\* re.find_iter: start positions of the leftmost non-overlapping matches from i on
\* (an empty match advances the search by one character)
RECURSIVE FindIter(_, _, _)
FindIter(s, phrase, i) ==
    IF i > Len(s) + 1 THEN <<>>
    ELSE IF MatchesAt(s, phrase, i)
         THEN <<i>> \o FindIter(s, phrase, i + (IF phrase = <<>> THEN 1 ELSE Len(phrase)))
         ELSE FindIter(s, phrase, i + 1)

\* the inner loop of apply_corrections: the matches of one entry, applied from
\* the last to the first; acc = [text, corrections]
RECURSIVE ApplyMatches(_, _, _)
ApplyMatches(acc, entry, starts) ==
    IF starts = <<>> THEN acc
    ELSE LET start == starts[Len(starts)]
             stop == start + Len(entry.phrase) - 1
             matched == SubSeq(acc.text, start, stop)
             replacement == apply_case(matched, entry.replacement)
             corr == [original |-> matched, replacement |-> replacement,
                      position |-> start - 1]
             text2 == SubSeq(acc.text, 1, start - 1) \o replacement
                      \o SubSeq(acc.text, stop + 1, Len(acc.text))
         IN ApplyMatches([text |-> text2, corrections |-> Append(acc.corrections, corr)],
                         entry, SubSeq(starts, 1, Len(starts) - 1))

\* corrections.sort_by_key(|c| c.position): a stable insertion sort
RECURSIVE InsertByPosition(_, _)
InsertByPosition(sorted, c) ==
    IF sorted = <<>> THEN <<c>>
    ELSE IF sorted[Len(sorted)].position <= c.position THEN Append(sorted, c)
         ELSE Append(InsertByPosition(SubSeq(sorted, 1, Len(sorted) - 1), c),
                     sorted[Len(sorted)])
RECURSIVE SortByPosition(_)
SortByPosition(cs) ==
    IF cs = <<>> THEN <<>>
    ELSE InsertByPosition(SortByPosition(SubSeq(cs, 1, Len(cs) - 1)), cs[Len(cs)])

\* variant: the enabled flag is not looked at
RECURSIVE ApplyEntriesAll(_, _)
ApplyEntriesAll(acc, entries) ==
    IF entries = <<>> THEN acc
    ELSE ApplyEntriesAll(ApplyMatches(acc, Head(entries),
                                      FindIter(acc.text, Head(entries).phrase, 1)),
                         Tail(entries))

RECURSIVE ApplyEntries(_, _)
ApplyEntries(acc, entries) ==
    IF entries = <<>> THEN acc
    ELSE LET entry == Head(entries)
         IN IF ~entry.enabled
            THEN ApplyEntries(acc, Tail(entries))
            ELSE ApplyEntries(ApplyMatches(acc, entry, FindIter(acc.text, entry.phrase, 1)),
                              Tail(entries))

\* apply_corrections(text, vocabulary)
apply_corrections(text, entries) ==
    LET r == ApplyEntries([text |-> text, corrections |-> <<>>], entries)
    IN [text |-> r.text, corrections |-> SortByPosition(r.corrections)]


(* ------------------------ the modelled vocabulary ---------------------- *)

\* what the recognizer's segments can concatenate to, before transcribe() trims
AsrRawOutputs == { <<" ">>, <<" ", "t", "e", "h">>, <<"o", "k">> }
\* what the translator can decode, before translate() trims
MtRawOutputs == { <<" ">>, <<"s", "i">> }
\* the target the user changes to in the settings window
TargetLangs == {"fr"}
\* languages nllb_lang_for_app_lang maps
SupportedLangs == {"en", "es", "fr", "de", "it", "pt", "zh", "ja", "ko", "ru",
                   "ar", "hi", "nl", "pl", "tr", "sv", "uk"}

NoAudio == [rec |-> 0, len |-> 0]
NoJob == [text |-> <<>>, source_lang |-> "", target_lang |-> "", rec |-> 0]
NoResp == [type |-> "None", ok |-> FALSE, text |-> <<>>, rec |-> 0]
NoSettings == [vocab_enabled |-> FALSE, translation_enabled |-> FALSE,
               source_lang |-> "", target_lang |-> ""]

Idle == [type |-> "Idle"]
Processing == [type |-> "Processing"]
Translating == [type |-> "Translating"]
ErrorState(m) == [type |-> "Error", message |-> m]
Downloading == [type |-> "Downloading", progress |-> 0]
IgnoredTypes == {"Processing", "Translating", "Downloading", "CorrectionPreview",
                 "TranslationPreview"}
PreviewTypes == {"CorrectionPreview", "TranslationPreview"}
BusyTypes == {"Processing", "Translating"}

VARIABLES
    \* AppState (state.rs)
    ds, vocab_enabled, translation_enabled, language, translation_target_lang,
    pending_original_text, pending_corrected_text,
    pending_source_text, pending_translated_text,
    \* ActiveCapture, StreamingActive
    active_capture, streaming_active,
    \* the ASR worker: mailbox, final channel, partial channel, thread state
    asr_req, asr_resp, asr_partial, asr_pc, asr_model_loaded, latest_audio, got_final,
    \* the MT worker
    mt_req, mt_resp, mt_partial, mt_pc, mt_model_loaded, latest_job, mt_got_final,
    \* history.json, vocabulary.json, the system clock (ms)
    history, vocabulary, now,
    \* the overlay window and the preview-key event tap
    overlay_visible, preview_keys_enabled,
    \* the main thread: position, locals, closures queued by run_on_main_thread
    main_pc, main_audio, main_dur, main_tasks,
    \* per recording: level/duration ticker, partial loop, final waiter
    tk_pc, pl_pc, pl_audio, pl_text, pl_set, pl_tr,
    w_pc, w_dur, w_resp, w_text, w_set, w_corr, w_from,
    \* the startup threads: setup_model, setup_translation_model
    ld_pc, ld_resp, tl_pc,
    \* bookkeeping
    rec_count, partials_sent, pastes, cancelled, final_done, late_partial,
    \* how many recordings the user starts in this run
    rec_limit,
    \* a call of apply_corrections: the text handed in, the CorrectionResult returned
    corr_text, corr_result,
    \* a call of resample: the input and the rates, the output
    rs_input, rs_output,
    \* AppState.selected_model, and the set_language call under way
    selected_model, sl_call,
    \* per thread: the lock operations still to do in its pass, the mutexes it holds
    locks

callVars == <<corr_text, corr_result, rs_input, rs_output>>
modelVars == <<selected_model, sl_call>>
lockVars == <<locks>>
runVars == <<rec_limit, lockVars, callVars, modelVars>>
settingsVars == <<vocab_enabled, translation_enabled, language, translation_target_lang>>
pendingVars == <<pending_original_text, pending_corrected_text,
                 pending_source_text, pending_translated_text>>
captureVars == <<active_capture, streaming_active>>
asrChan == <<asr_req, asr_resp, asr_partial>>
asrWorker == <<asr_pc, asr_model_loaded, latest_audio, got_final>>
mtChan == <<mt_req, mt_resp, mt_partial>>
mtWorker == <<mt_pc, mt_model_loaded, latest_job, mt_got_final>>
fileVars == <<history, vocabulary, now>>
uiVars == <<overlay_visible, preview_keys_enabled>>
mainVars == <<main_pc, main_audio, main_dur, main_tasks>>
tkVars == <<tk_pc>>
plVars == <<pl_pc, pl_audio, pl_text, pl_set, pl_tr>>
wVars == <<w_pc, w_dur, w_resp, w_text, w_set, w_corr, w_from>>
ldVars == <<ld_pc, ld_resp, tl_pc>>
bookVars == <<rec_count, partials_sent, pastes, cancelled, final_done, late_partial>>

vars == <<runVars, ds, settingsVars, pendingVars, captureVars, asrChan, asrWorker, mtChan,
          mtWorker, fileVars, uiVars, mainVars, tkVars, plVars, wVars, ldVars, bookVars>>

\* source_language_for_translation
source_language_for_translation(lang) == IF lang = "auto" THEN "auto" ELSE lang

\* emit_state: the event tap follows the emitted state
emit_state(s) == preview_keys_enabled' = (s.type \in PreviewTypes)

\* no set_language call is under way
NoSetLanguage == [pc |-> "idle", language |-> "", current_model |-> "",
                  needs_model_switch |-> FALSE, new_model |-> "", updated_state |-> FALSE]

\* the threads that take the mutexes of a recording, and the mutexes
LockThreads == {"toggle_recording", "cancel_recording", "ticker", "partial_loop",
                "capture_callback"}
Mutexes == {"AppState", "ActiveCapture", "AudioBuffer"}
NoLocks == [t \in LockThreads |-> [todo |-> <<>>, held |-> {}]]

\* AppState::default and run(): the managed state right after construction, with the
\* history file an earlier run left and the step setup_model starts at
StartupWith(limit, translation, saved, loader, entries) ==
    /\ rec_limit = limit
    /\ selected_model = "base.en" /\ sl_call = NoSetLanguage
    /\ locks = NoLocks
    /\ ds = Idle
    /\ vocab_enabled = TRUE
    /\ translation_enabled = translation
    /\ language = "en"
    /\ translation_target_lang = "es"
    /\ pending_original_text = <<>> /\ pending_corrected_text = <<>>
    /\ pending_source_text = <<>> /\ pending_translated_text = <<>>
    /\ active_capture = <<>> /\ streaming_active = FALSE
    /\ asr_req = <<>> /\ asr_resp = <<>> /\ asr_partial = <<>>
    /\ asr_pc = "recv" /\ asr_model_loaded = FALSE
    /\ latest_audio = NoAudio /\ got_final = <<>>
    /\ mt_req = << [type |-> "SetLanguages", job |-> NoJob] >>
    /\ mt_resp = <<>> /\ mt_partial = <<>>
    /\ mt_pc = "recv" /\ mt_model_loaded = FALSE
    /\ latest_job = NoJob /\ mt_got_final = <<>>
    /\ history = saved /\ now = Len(saved)
    /\ vocabulary = entries
    /\ overlay_visible = FALSE /\ preview_keys_enabled = FALSE
    /\ main_pc = "idle" /\ main_audio = NoAudio /\ main_dur = 0
    /\ main_tasks = <<>>
    /\ tk_pc = [r \in Recs |-> "off"]
    /\ pl_pc = [r \in Recs |-> "off"] /\ pl_audio = [r \in Recs |-> NoAudio]
    /\ pl_text = [r \in Recs |-> <<>>] /\ pl_set = [r \in Recs |-> NoSettings]
    /\ pl_tr = [r \in Recs |-> <<>>]
    /\ w_pc = [r \in Recs |-> "off"] /\ w_dur = [r \in Recs |-> 0]
    /\ w_resp = [r \in Recs |-> NoResp] /\ w_text = [r \in Recs |-> <<>>]
    /\ w_set = [r \in Recs |-> NoSettings] /\ w_corr = [r \in Recs |-> <<>>]
    /\ w_from = [r \in Recs |-> 0]
    /\ ld_pc = loader /\ ld_resp = NoResp
    /\ tl_pc = IF translation_enabled THEN "send" ELSE "done"
    /\ rec_count = 0 /\ partials_sent = 0 /\ pastes = <<>>
    /\ cancelled = {} /\ final_done = {} /\ late_partial = {}

\* the vocabulary.json of the modelled installation: one enabled entry, teh -> the
SavedVocabulary ==
    << [id |-> 1, phrase |-> <<"t", "e", "h">>,
        replacement |-> <<"t", "h", "e">>, enabled |-> TRUE] >>

\* no call of apply_corrections or resample is followed on its own
NoCall ==
    /\ corr_text = <<>> /\ corr_result = <<>>
    /\ rs_input = [n |-> 0, from_rate |-> TargetRate, to_rate |-> TargetRate]
    /\ rs_output = <<>>

StartupAt(limit, translation, saved, loader) ==
    /\ StartupWith(limit, translation, saved, loader, SavedVocabulary)
    /\ NoCall

\* the model file is on disk: setup_model goes straight to load_model
StartupFrom(limit, translation, saved) == StartupAt(limit, translation, saved, "send")

\* the first run: no history file yet
Startup(limit, translation) == StartupFrom(limit, translation, <<>>)

\* run(): the settings come from the saved configuration; translation is off by default
Init == Startup(MaxRec, FALSE)

(* ------------------- toggle_recording (main thread) -------------------- *)

\* lib.rs 267-273: the handler reads the state and picks its branch
HotkeyRead ==
    /\ main_pc = "idle"
    /\ \/ ds.type = "Idle" /\ rec_count < rec_limit /\ main_pc' = "hk_start"
       \/ ds.type = "Recording" /\ main_pc' = "hk_stop_flag"
       \/ ds.type = "Error" /\ main_pc' = "hk_error"
       \/ ds.type \in IgnoredTypes /\ main_pc' = "hk_ignore"
    /\ UNCHANGED <<runVars, ds, settingsVars, pendingVars, captureVars, asrChan, asrWorker, mtChan,
                   mtWorker, fileVars, uiVars, main_audio, main_dur, main_tasks,
                   tkVars, plVars, wVars, ldVars, bookVars>>

\* lib.rs 908-914: the branch that ignores the hotkey
\* variant: the ignored states are handled like Error
HotkeyIgnoredResets ==
    /\ main_pc = "hk_ignore"
    /\ ds' = Idle
    /\ emit_state(Idle)
    /\ overlay_visible' = FALSE
    /\ main_pc' = "idle"
    /\ UNCHANGED <<runVars, settingsVars, pendingVars, captureVars, asrChan, asrWorker, mtChan,
                   mtWorker, fileVars, main_audio, main_dur, main_tasks,
                   tkVars, plVars, wVars, ldVars, bookVars>>

HotkeyIgnored ==
    /\ main_pc = "hk_ignore"
    /\ main_pc' = "idle"
    /\ UNCHANGED <<runVars, ds, settingsVars, pendingVars, captureVars, asrChan, asrWorker,
                   mtChan, mtWorker, fileVars, uiVars, main_audio, main_dur, main_tasks,
                   tkVars, plVars, wVars, ldVars, bookVars>>

\* lib.rs 276-289 and 540-568: no accessibility permission, or the microphone fails
HotkeyStartFails ==
    /\ main_pc = "hk_start"
    /\ \E m \in {"Accessibility access needed", "Microphone access needed"} :
           ds' = ErrorState(m)
    /\ emit_state(ds')
    /\ overlay_visible' = TRUE
    /\ main_pc' = "idle"
    /\ UNCHANGED <<runVars, settingsVars, pendingVars, captureVars, asrChan, asrWorker, mtChan,
                   mtWorker, fileVars, main_audio, main_dur, main_tasks,
                   tkVars, plVars, wVars, ldVars, bookVars>>

\* lib.rs 292-300: AudioCapture::new, start_recording, store the capture
HotkeyStartCapture ==
    /\ main_pc = "hk_start"
    /\ \E rate \in {TargetRate, 3 * TargetRate} :
           active_capture' = << [rec |-> rec_count + 1, buf |-> 0, rate |-> rate] >>
    /\ rec_count' = rec_count + 1
    /\ main_pc' = "hk_rec_state"
    /\ UNCHANGED <<runVars, ds, settingsVars, pendingVars, streaming_active, asrChan, asrWorker,
                   mtChan, mtWorker, fileVars, uiVars, main_audio, main_dur, main_tasks, tkVars, plVars, wVars, ldVars, partials_sent, pastes,
                   cancelled, final_done, late_partial>>

\* lib.rs 302-322: state := Recording, emit, show the overlay
HotkeyRecordingState ==
    /\ main_pc = "hk_rec_state"
    /\ ds' = [type |-> "Recording", duration_ms |-> 0, partial_text |-> <<>>,
              partial_translation |-> <<>>,
              source_lang |-> source_language_for_translation(language),
              target_lang |-> translation_target_lang]
    /\ emit_state(ds')
    /\ overlay_visible' = TRUE
    /\ main_pc' = "hk_spawn"
    /\ UNCHANGED <<runVars, settingsVars, pendingVars, captureVars, asrChan, asrWorker, mtChan,
                   mtWorker, fileVars, main_audio, main_dur, main_tasks,
                   tkVars, plVars, wVars, ldVars, bookVars>>

\* lib.rs 324-334, 387: set the streaming flag, spawn the ticker and the partial loop
HotkeySpawn ==
    /\ main_pc = "hk_spawn"
    /\ streaming_active' = TRUE
    /\ tk_pc' = [tk_pc EXCEPT ![rec_count] = "check"]
    /\ pl_pc' = [pl_pc EXCEPT ![rec_count] = "check"]
    /\ main_pc' = "idle"
    /\ UNCHANGED <<runVars, ds, settingsVars, pendingVars, active_capture, asrChan, asrWorker,
                   mtChan, mtWorker, fileVars, uiVars, main_audio, main_dur, main_tasks, pl_audio, pl_text, pl_set, pl_tr, wVars, ldVars,
                   bookVars>>

\* lib.rs 572-574: clear the streaming flag
HotkeyStopFlag ==
    /\ main_pc = "hk_stop_flag"
    /\ streaming_active' = FALSE
    /\ main_pc' = "hk_stop_take"
    /\ UNCHANGED <<runVars, ds, settingsVars, pendingVars, active_capture, asrChan, asrWorker,
                   mtChan, mtWorker, fileVars, uiVars, main_audio, main_dur, main_tasks, tkVars, plVars, wVars, ldVars, bookVars>>

\* capture.rs 94-104: stop_recording takes the buffer and resamples it
stop_recording(cap) == [rec |-> cap.rec, len |-> ResampleLen(cap.buf, cap.rate, TargetRate)]

\* the emptiness test looks at the raw buffer, not at the resampled audio
HotkeyStopTakeRaw ==
    /\ main_pc = "hk_stop_take"
    /\ main_audio' = IF active_capture # <<>> THEN stop_recording(active_capture[1])
                     ELSE NoAudio
    /\ main_pc' = IF active_capture = <<>> \/ active_capture[1].buf = 0
                  THEN "hk_stop_empty" ELSE "hk_stop_dur"
    /\ active_capture' = <<>>
    /\ UNCHANGED <<runVars, ds, settingsVars, pendingVars, streaming_active, asrChan, asrWorker,
                   mtChan, mtWorker, fileVars, uiVars, main_dur, main_tasks,
                   tkVars, plVars, wVars, ldVars, bookVars>>

\* lib.rs 577-588: take the capture, stop it
HotkeyStopTake ==
    /\ main_pc = "hk_stop_take"
    /\ main_audio' = IF active_capture # <<>> THEN stop_recording(active_capture[1])
                     ELSE NoAudio
    /\ active_capture' = <<>>
    /\ main_pc' = IF main_audio'.len = 0 THEN "hk_stop_empty" ELSE "hk_stop_dur"
    /\ UNCHANGED <<runVars, ds, settingsVars, pendingVars, streaming_active, asrChan, asrWorker,
                   mtChan, mtWorker, fileVars, uiVars, main_dur, main_tasks,
                   tkVars, plVars, wVars, ldVars, bookVars>>

\* lib.rs 588-598: no audio, back to Idle
HotkeyStopEmpty ==
    /\ main_pc = "hk_stop_empty"
    /\ ds' = Idle
    /\ emit_state(Idle)
    /\ overlay_visible' = FALSE
    /\ main_audio' = NoAudio
    /\ main_pc' = "idle"
    /\ UNCHANGED <<runVars, settingsVars, pendingVars, captureVars, asrChan, asrWorker, mtChan,
                   mtWorker, fileVars, main_dur, main_tasks,
                   tkVars, plVars, wVars, ldVars, bookVars>>

\* lib.rs 600-608: read the recording's duration
HotkeyStopDuration ==
    /\ main_pc = "hk_stop_dur"
    /\ main_dur' = IF ds.type = "Recording" THEN ds.duration_ms ELSE 0
    /\ main_pc' = "hk_stop_proc"
    /\ UNCHANGED <<runVars, ds, settingsVars, pendingVars, captureVars, asrChan, asrWorker, mtChan,
                   mtWorker, fileVars, uiVars, main_audio, main_tasks,
                   tkVars, plVars, wVars, ldVars, bookVars>>

\* lib.rs 610-615: state := Processing, emit
HotkeyStopProcessing ==
    /\ main_pc = "hk_stop_proc"
    /\ ds' = Processing
    /\ emit_state(Processing)
    /\ main_pc' = "hk_stop_send"
    /\ UNCHANGED <<runVars, settingsVars, pendingVars, captureVars, asrChan, asrWorker, mtChan,
                   mtWorker, fileVars, overlay_visible, main_audio, main_dur, main_tasks, tkVars, plVars, wVars, ldVars, bookVars>>

\* lib.rs 617-626: send Transcribe(audio), spawn the thread that waits for the result
HotkeyStopSend ==
    /\ main_pc = "hk_stop_send"
    /\ asr_req' = Append(asr_req, [type |-> "Transcribe", audio |-> main_audio])
    /\ w_pc' = [w_pc EXCEPT ![main_audio.rec] = "recv"]
    /\ w_dur' = [w_dur EXCEPT ![main_audio.rec] = main_dur]
    /\ main_audio' = NoAudio
    /\ main_dur' = 0
    /\ main_pc' = "idle"
    /\ UNCHANGED <<runVars, ds, settingsVars, pendingVars, captureVars, asr_resp, asr_partial,
                   asrWorker, mtChan, mtWorker, fileVars, uiVars, main_tasks,
                   tkVars, plVars, w_resp, w_text, w_set, w_corr, w_from, ldVars, bookVars>>

\* variant: the error is dismissed but the overlay stays
HotkeyErrorKeepsOverlay ==
    /\ main_pc = "hk_error"
    /\ ds' = Idle
    /\ emit_state(Idle)
    /\ main_pc' = "idle"
    /\ UNCHANGED <<runVars, settingsVars, pendingVars, captureVars, asrChan, asrWorker, mtChan,
                   mtWorker, fileVars, overlay_visible, main_audio, main_dur, main_tasks,
                   tkVars, plVars, wVars, ldVars, bookVars>>

\* lib.rs 915-928: leave Error
HotkeyError ==
    /\ main_pc = "hk_error"
    /\ ds' = Idle
    /\ emit_state(Idle)
    /\ overlay_visible' = FALSE
    /\ main_pc' = "idle"
    /\ UNCHANGED <<runVars, settingsVars, pendingVars, captureVars, asrChan, asrWorker, mtChan,
                   mtWorker, fileVars, main_audio, main_dur, main_tasks,
                   tkVars, plVars, wVars, ldVars, bookVars>>

(* ------------------- cancel_recording (main thread) -------------------- *)

\* lib.rs 1629-1635, 1671: read the state and pick the branch
CancelRead ==
    /\ main_pc = "idle"
    /\ \/ /\ ds.type = "Recording"
          /\ main_pc' = "cn_flag"
          /\ cancelled' = cancelled \cup {rec_count}
       \/ /\ ds.type = "Error"
          /\ main_pc' = "cn_error"
          /\ UNCHANGED cancelled
       \/ /\ ds.type \notin {"Recording", "Error"}
          /\ UNCHANGED <<main_pc, cancelled>>
    /\ UNCHANGED <<runVars, ds, settingsVars, pendingVars, captureVars, asrChan, asrWorker, mtChan,
                   mtWorker, fileVars, uiVars, main_audio, main_dur, main_tasks,
                   tkVars, plVars, wVars, ldVars, rec_count, partials_sent, pastes,
                   final_done, late_partial>>

\* lib.rs 1637-1639
CancelFlag ==
    /\ main_pc = "cn_flag"
    /\ streaming_active' = FALSE
    /\ main_pc' = "cn_take"
    /\ UNCHANGED <<runVars, ds, settingsVars, pendingVars, active_capture, asrChan, asrWorker,
                   mtChan, mtWorker, fileVars, uiVars, main_audio, main_dur, main_tasks, tkVars, plVars, wVars, ldVars, bookVars>>

\* the cancel handler forgets to take the capture
CancelKeepsCapture ==
    /\ main_pc = "cn_take"
    /\ main_pc' = "cn_idle"
    /\ UNCHANGED <<runVars, ds, settingsVars, pendingVars, captureVars, asrChan, asrWorker,
                   mtChan, mtWorker, fileVars, uiVars, main_audio, main_dur,
                   main_tasks, tkVars, plVars, wVars, ldVars, bookVars>>

\* lib.rs 1641-1648: take the capture, stop it, drop the audio
CancelTake ==
    /\ main_pc = "cn_take"
    /\ active_capture' = <<>>
    /\ main_pc' = "cn_idle"
    /\ UNCHANGED <<runVars, ds, settingsVars, pendingVars, streaming_active, asrChan, asrWorker,
                   mtChan, mtWorker, fileVars, uiVars, main_audio, main_dur, main_tasks, tkVars, plVars, wVars, ldVars, bookVars>>

\* lib.rs 1650-1658 (after Recording) and 1660-1670 (after Error)
CancelIdle ==
    /\ main_pc \in {"cn_idle", "cn_error"}
    /\ ds' = Idle
    /\ emit_state(Idle)
    /\ overlay_visible' = FALSE
    /\ main_pc' = "idle"
    /\ UNCHANGED <<runVars, settingsVars, pendingVars, captureVars, asrChan, asrWorker, mtChan,
                   mtWorker, fileVars, main_audio, main_dur, main_tasks,
                   tkVars, plVars, wVars, ldVars, bookVars>>

(* ----------------------- the capture callback -------------------------- *)

\* capture.rs 50-57: the stream's callback appends to the buffer
CaptureAppend ==
    /\ active_capture # <<>>
    /\ active_capture[1].buf < MaxBuf
    /\ active_capture' = << [active_capture[1] EXCEPT !.buf = @ + 1] >>
    /\ UNCHANGED <<runVars, ds, settingsVars, pendingVars, streaming_active, asrChan, asrWorker,
                   mtChan, mtWorker, fileVars, uiVars, mainVars, tkVars, plVars, wVars,
                   ldVars, bookVars>>

(* -------------------- the level/duration ticker ------------------------ *)

\* lib.rs 335: while flag_levels.load()
TickerCheck(r) ==
    /\ tk_pc[r] = "check"
    /\ tk_pc' = [tk_pc EXCEPT ![r] = IF streaming_active THEN "levels" ELSE "done"]
    /\ UNCHANGED <<runVars, ds, settingsVars, pendingVars, captureVars, asrChan, asrWorker, mtChan,
                   mtWorker, fileVars, uiVars, mainVars, plVars, wVars, ldVars,
                   bookVars>>

\* lib.rs 336-352: read the buffer under the capture lock; leave if there is no capture
TickerLevels(r) ==
    /\ tk_pc[r] = "levels"
    /\ tk_pc' = [tk_pc EXCEPT ![r] = IF active_capture # <<>> THEN "update" ELSE "done"]
    /\ UNCHANGED <<runVars, ds, settingsVars, pendingVars, captureVars, asrChan, asrWorker, mtChan,
                   mtWorker, fileVars, uiVars, mainVars, plVars, wVars, ldVars,
                   bookVars>>

\* the ticker writes the Recording state back without the partial text
TickerUpdateDropsPartial(r) ==
    /\ tk_pc[r] = "update"
    /\ \E e \in 1..MaxDur :
        /\ IF ds.type = "Recording"
           THEN /\ ds' = [ds EXCEPT !.duration_ms = e, !.partial_text = <<>>]
                /\ tk_pc' = [tk_pc EXCEPT ![r] = "emit"]
           ELSE /\ UNCHANGED ds
                /\ tk_pc' = [tk_pc EXCEPT ![r] = "check"]
    /\ UNCHANGED <<runVars, settingsVars, pendingVars, captureVars, asrChan, asrWorker, mtChan,
                   mtWorker, fileVars, uiVars, mainVars, plVars, wVars, ldVars, bookVars>>

\* lib.rs 354-378: under the state lock, write duration_ms if the state is Recording
TickerUpdate(r) ==
    /\ tk_pc[r] = "update"
    /\ \E e \in 1..MaxDur :
        /\ IF ds.type = "Recording"
           THEN /\ ds' = [ds EXCEPT !.duration_ms = e]
                /\ tk_pc' = [tk_pc EXCEPT ![r] = "emit"]
           ELSE /\ UNCHANGED ds
                /\ tk_pc' = [tk_pc EXCEPT ![r] = "check"]
    /\ UNCHANGED <<runVars, settingsVars, pendingVars, captureVars, asrChan, asrWorker, mtChan,
                   mtWorker, fileVars, uiVars, mainVars, plVars, wVars, ldVars, bookVars>>

\* lib.rs 379-383: emit the Recording state computed under the lock, sleep
TickerEmit(r) ==
    /\ tk_pc[r] = "emit"
    /\ preview_keys_enabled' = FALSE
    /\ tk_pc' = [tk_pc EXCEPT ![r] = "check"]
    /\ UNCHANGED <<runVars, ds, settingsVars, pendingVars, captureVars, asrChan, asrWorker, mtChan,
                   mtWorker, fileVars, overlay_visible, mainVars, plVars, wVars,
                   ldVars, bookVars>>

(* ------------------------- the partial loop ---------------------------- *)

PlReset(r) ==
    /\ pl_audio' = [pl_audio EXCEPT ![r] = NoAudio]
    /\ pl_text' = [pl_text EXCEPT ![r] = <<>>]
    /\ pl_set' = [pl_set EXCEPT ![r] = NoSettings]
    /\ pl_tr' = [pl_tr EXCEPT ![r] = <<>>]

\* lib.rs 391: while flag.load()
PartialCheck(r) ==
    /\ pl_pc[r] = "check"
    /\ pl_pc' = [pl_pc EXCEPT ![r] = IF streaming_active THEN "snap" ELSE "done"]
    /\ UNCHANGED <<runVars, ds, settingsVars, pendingVars, captureVars, asrChan, asrWorker, mtChan,
                   mtWorker, fileVars, uiVars, mainVars, tkVars, pl_audio, pl_text, pl_set,
                   pl_tr, wVars, ldVars, bookVars>>

\* clone_buffer_resampled: a resampled copy of the buffer
clone_buffer_resampled(cap) ==
    [rec |-> cap.rec, len |-> ResampleLen(cap.buf, cap.rate, TargetRate)]

\* lib.rs 394-407: snapshot the buffer; leave without a capture, sleep on an empty one
PartialSnapshot(r) ==
    /\ pl_pc[r] = "snap"
    /\ IF active_capture = <<>>
       THEN /\ pl_pc' = [pl_pc EXCEPT ![r] = "done"]
            /\ UNCHANGED <<pl_audio, partials_sent>>
       ELSE LET audio == clone_buffer_resampled(active_capture[1])
            IN IF audio.len = 0
               THEN /\ pl_pc' = [pl_pc EXCEPT ![r] = "check"]
                    /\ UNCHANGED <<pl_audio, partials_sent>>
               ELSE /\ partials_sent < MaxPartials
                    /\ partials_sent' = partials_sent + 1
                    /\ pl_audio' = [pl_audio EXCEPT ![r] = audio]
                    /\ pl_pc' = [pl_pc EXCEPT ![r] = "send"]
    /\ UNCHANGED <<runVars, ds, settingsVars, pendingVars, captureVars, asrChan, asrWorker, mtChan,
                   mtWorker, fileVars, uiVars, mainVars, tkVars, pl_text, pl_set, pl_tr,
                   wVars, ldVars, rec_count, pastes, cancelled, final_done, late_partial>>

\* lib.rs 409-415: send TranscribePartial(audio)
PartialSend(r) ==
    /\ pl_pc[r] = "send"
    /\ asr_req' = Append(asr_req, [type |-> "TranscribePartial", audio |-> pl_audio[r]])
    /\ pl_audio' = [pl_audio EXCEPT ![r] = NoAudio]
    /\ pl_pc' = [pl_pc EXCEPT ![r] = "wait"]
    /\ UNCHANGED <<runVars, ds, settingsVars, pendingVars, captureVars, asr_resp, asr_partial,
                   asrWorker, mtChan, mtWorker, fileVars, uiVars, mainVars, tkVars,
                   pl_text, pl_set, pl_tr, wVars, ldVars, bookVars>>

\* lib.rs 417-422: recv_timeout(5 s) on the partial channel
PartialWait(r) ==
    /\ pl_pc[r] = "wait"
    /\ IF asr_partial # <<>>
       THEN /\ pl_text' = [pl_text EXCEPT ![r] =
                   << [text |-> Head(asr_partial).text, rec |-> Head(asr_partial).rec,
                       in_recording |-> (ds.type = "Recording")] >>]
            /\ asr_partial' = Tail(asr_partial)
       ELSE /\ pl_text' = [pl_text EXCEPT ![r] = <<>>]
            /\ UNCHANGED asr_partial
    /\ pl_pc' = [pl_pc EXCEPT ![r] = "flag"]
    /\ UNCHANGED <<runVars, ds, settingsVars, pendingVars, captureVars, asr_req, asr_resp,
                   asrWorker, mtChan, mtWorker, fileVars, uiVars, mainVars, tkVars,
                   pl_audio, pl_set, pl_tr, wVars, ldVars, bookVars>>

\* lib.rs 424-428: leave if the flag is cleared; skip the tick if nothing arrived
PartialFlag(r) ==
    /\ pl_pc[r] = "flag"
    /\ IF ~streaming_active
       THEN pl_pc' = [pl_pc EXCEPT ![r] = "done"] /\ PlReset(r)
       ELSE IF pl_text[r] = <<>>
            THEN pl_pc' = [pl_pc EXCEPT ![r] = "check"] /\ PlReset(r)
            ELSE pl_pc' = [pl_pc EXCEPT ![r] = "read"]
                 /\ UNCHANGED <<pl_audio, pl_text, pl_set, pl_tr>>
    /\ UNCHANGED <<runVars, ds, settingsVars, pendingVars, captureVars, asrChan, asrWorker, mtChan,
                   mtWorker, fileVars, uiVars, mainVars, tkVars, wVars, ldVars, bookVars>>

\* lib.rs 429-434: the partial text, None if empty after trim
PartialOf(resp) == IF Trim(resp.text) = <<>> THEN <<>> ELSE <<Trim(resp.text)>>

\* lib.rs 436-465: read the languages and the translation flag under the state lock
PartialRead(r) ==
    /\ pl_pc[r] = "read"
    /\ LET st == IF ds.type = "Recording"
                 THEN [vocab_enabled |-> FALSE, translation_enabled |-> translation_enabled,
                       source_lang |-> ds.source_lang, target_lang |-> ds.target_lang]
                 ELSE NoSettings
       IN /\ pl_set' = [pl_set EXCEPT ![r] = st]
          /\ pl_pc' = [pl_pc EXCEPT ![r] =
                 IF st.translation_enabled /\ PartialOf(pl_text[r][1]) # <<>>
                    /\ ds.type = "Recording"
                 THEN "mtsend" ELSE "write"]
    /\ UNCHANGED <<runVars, ds, settingsVars, pendingVars, captureVars, asrChan, asrWorker, mtChan,
                   mtWorker, fileVars, uiVars, mainVars, tkVars, pl_audio, pl_text, pl_tr,
                   wVars, ldVars, bookVars>>

\* lib.rs 466-476: send TranslatePartial(job)
PartialMtSend(r) ==
    /\ pl_pc[r] = "mtsend"
    /\ Len(mt_req) < MaxMtQueue
    /\ mt_req' = Append(mt_req, [type |-> "TranslatePartial",
                                 job |-> [text |-> Trim(pl_text[r][1].text),
                                          source_lang |-> pl_set[r].source_lang,
                                          target_lang |-> pl_set[r].target_lang,
                                          rec |-> pl_text[r][1].rec]])
    /\ pl_pc' = [pl_pc EXCEPT ![r] = "mtwait"]
    /\ UNCHANGED <<runVars, ds, settingsVars, pendingVars, captureVars, asrChan, asrWorker,
                   mt_resp, mt_partial, mtWorker, fileVars, uiVars, mainVars, tkVars,
                   pl_audio, pl_text, pl_set, pl_tr, wVars, ldVars, bookVars>>

\* lib.rs 478-492: recv_timeout(1.5 s) on the partial translation channel
PartialMtWait(r) ==
    /\ pl_pc[r] = "mtwait"
    /\ IF mt_partial # <<>>
       THEN /\ pl_tr' = [pl_tr EXCEPT ![r] =
                   IF Trim(Head(mt_partial).text) = <<>> THEN <<>>
                   ELSE << [text |-> Trim(Head(mt_partial).text),
                            rec |-> Head(mt_partial).rec] >>]
            /\ mt_partial' = Tail(mt_partial)
       ELSE /\ pl_tr' = [pl_tr EXCEPT ![r] = <<>>]
            /\ UNCHANGED mt_partial
    /\ pl_pc' = [pl_pc EXCEPT ![r] = "write"]
    /\ UNCHANGED <<runVars, ds, settingsVars, pendingVars, captureVars, asrChan, asrWorker,
                   mt_req, mt_resp, mtWorker, fileVars, uiVars, mainVars, tkVars,
                   pl_audio, pl_text, pl_set, wVars, ldVars, bookVars>>

\* lib.rs 497-523: under the state lock, write the partial fields if Recording
PartialWrite(r) ==
    /\ pl_pc[r] = "write"
    /\ IF ds.type = "Recording"
       THEN /\ ds' = [ds EXCEPT !.partial_text =
                          IF PartialOf(pl_text[r][1]) = <<>> THEN <<>>
                          ELSE << [text |-> PartialOf(pl_text[r][1])[1],
                                   rec |-> pl_text[r][1].rec] >>,
                                !.partial_translation = pl_tr[r]]
            /\ pl_pc' = [pl_pc EXCEPT ![r] = "emit"]
       ELSE /\ UNCHANGED ds
            /\ pl_pc' = [pl_pc EXCEPT ![r] = "check"]
    /\ PlReset(r)
    /\ UNCHANGED <<runVars, settingsVars, pendingVars, captureVars, asrChan, asrWorker, mtChan,
                   mtWorker, fileVars, uiVars, mainVars, tkVars, wVars, ldVars, bookVars>>

\* lib.rs 525-536: emit the Recording state computed under the lock, sleep
PartialEmit(r) ==
    /\ pl_pc[r] = "emit"
    /\ preview_keys_enabled' = FALSE
    /\ pl_pc' = [pl_pc EXCEPT ![r] = "check"]
    /\ UNCHANGED <<runVars, ds, settingsVars, pendingVars, captureVars, asrChan, asrWorker, mtChan,
                   mtWorker, fileVars, overlay_visible, mainVars, tkVars, pl_audio, pl_text,
                   pl_set, pl_tr, wVars, ldVars, bookVars>>

(* --------------------------- the ASR worker ---------------------------- *)

ModelLoaded(ok) == [type |-> "ModelLoaded", ok |-> ok, text |-> <<>>, rec |-> 0]
Complete(type, res, rec) == [type |-> type, ok |-> res.ok, text |-> res.text, rec |-> rec]
Timeout == [type |-> "Timeout", ok |-> FALSE, text |-> <<>>, rec |-> 0]

\* whisper.rs 35-63: transcribe fails without a model, may fail in inference,
\* and returns the trimmed text otherwise
TranscribeResults(loaded) ==
    IF ~loaded THEN { [ok |-> FALSE, text |-> <<>>] }
    ELSE { [ok |-> FALSE, text |-> <<>>] }
         \cup { [ok |-> TRUE, text |-> Trim(raw)] : raw \in AsrRawOutputs }

\* whisper.rs 92-95, 113-116: load_model and its ModelLoaded response
AsrLoadModel ==
    \E ok \in BOOLEAN :
        /\ asr_model_loaded' = ok
        /\ asr_resp' = Append(asr_resp, ModelLoaded(ok))

\* whisper.rs 96-99, 123-125: transcribe the final audio, send TranscriptionComplete
AsrFinal(audio) ==
    \E res \in TranscribeResults(asr_model_loaded) :
        /\ asr_resp' = Append(asr_resp, Complete("TranscriptionComplete", res, audio.rec))
        /\ final_done' = final_done \cup {audio.rec}

\* whisper.rs 90-99: the blocking recv; LoadModel and Transcribe are served at once
AsrRecvLoad ==
    /\ asr_pc = "recv" /\ asr_req # <<>> /\ Head(asr_req).type = "LoadModel"
    /\ AsrLoadModel
    /\ asr_req' = Tail(asr_req)
    /\ UNCHANGED <<runVars, ds, settingsVars, pendingVars, captureVars, asr_partial, asr_pc,
                   latest_audio, got_final, mtChan, mtWorker, fileVars, uiVars, mainVars,
                   tkVars, plVars, wVars, ldVars, bookVars>>

AsrRecvFinal ==
    /\ asr_pc = "recv" /\ asr_req # <<>> /\ Head(asr_req).type = "Transcribe"
    /\ AsrFinal(Head(asr_req).audio)
    /\ asr_req' = Tail(asr_req)
    /\ UNCHANGED <<runVars, ds, settingsVars, pendingVars, captureVars, asr_partial, asr_pc,
                   asr_model_loaded, latest_audio, got_final, mtChan, mtWorker, fileVars,
                   uiVars, mainVars, tkVars, plVars, wVars, ldVars, rec_count,
                   partials_sent, pastes, cancelled, late_partial>>

\* whisper.rs 100-103: a TranscribePartial starts a drain
AsrRecvPartial ==
    /\ asr_pc = "recv" /\ asr_req # <<>> /\ Head(asr_req).type = "TranscribePartial"
    /\ latest_audio' = Head(asr_req).audio
    /\ got_final' = <<>>
    /\ asr_req' = Tail(asr_req)
    /\ asr_pc' = "drain"
    /\ UNCHANGED <<runVars, ds, settingsVars, pendingVars, captureVars, asr_resp, asr_partial,
                   asr_model_loaded, mtChan, mtWorker, fileVars, uiVars, mainVars,
                   tkVars, plVars, wVars, ldVars, bookVars>>

\* the drain loop without the break on Transcribe
AsrDrainNoBreak(q) ==
    CASE q.type = "TranscribePartial" ->
            /\ latest_audio' = q.audio
            /\ UNCHANGED <<got_final, asr_pc, asr_model_loaded, asr_resp>>
      [] q.type = "Transcribe" ->
            /\ got_final' = <<q.audio>>
            /\ UNCHANGED <<asr_pc, latest_audio, asr_model_loaded, asr_resp>>
      [] q.type = "LoadModel" ->
            /\ AsrLoadModel
            /\ UNCHANGED <<latest_audio, got_final, asr_pc>>

\* the drain loop keeping the first partial's samples
AsrDrainKeepsFirst(q) ==
    CASE q.type = "TranscribePartial" ->
            UNCHANGED <<latest_audio, got_final, asr_pc, asr_model_loaded, asr_resp>>
      [] q.type = "Transcribe" ->
            /\ got_final' = <<q.audio>>
            /\ asr_pc' = "run"
            /\ UNCHANGED <<latest_audio, asr_model_loaded, asr_resp>>
      [] q.type = "LoadModel" ->
            /\ AsrLoadModel
            /\ UNCHANGED <<latest_audio, got_final, asr_pc>>

\* whisper.rs 104-121: one try_recv of the drain loop
AsrDrainStep(q) ==
    CASE q.type = "TranscribePartial" ->
            /\ latest_audio' = q.audio
            /\ UNCHANGED <<got_final, asr_pc, asr_model_loaded, asr_resp>>
      [] q.type = "Transcribe" ->
            /\ got_final' = <<q.audio>>
            /\ asr_pc' = "run"
            /\ UNCHANGED <<latest_audio, asr_model_loaded, asr_resp>>
      [] q.type = "LoadModel" ->
            /\ AsrLoadModel
            /\ UNCHANGED <<latest_audio, got_final, asr_pc>>

AsrDrain ==
    /\ asr_pc = "drain" /\ asr_req # <<>>
    /\ AsrDrainStep(Head(asr_req))
    /\ asr_req' = Tail(asr_req)
    /\ UNCHANGED <<runVars, ds, settingsVars, pendingVars, captureVars, asr_partial, mtChan,
                   mtWorker, fileVars, uiVars, mainVars, tkVars, plVars, wVars, ldVars,
                   bookVars>>

\* whisper.rs 104: try_recv finds the mailbox empty, the drain ends
AsrDrainEnd ==
    /\ asr_pc = "drain" /\ asr_req = <<>>
    /\ asr_pc' = "run"
    /\ UNCHANGED <<runVars, ds, settingsVars, pendingVars, captureVars, asrChan, asr_model_loaded,
                   latest_audio, got_final, mtChan, mtWorker, fileVars, uiVars, mainVars,
                   tkVars, plVars, wVars, ldVars, bookVars>>

\* whisper.rs 123-125: the drain met a Transcribe: run it
AsrRunFinal ==
    /\ asr_pc = "run" /\ got_final # <<>>
    /\ AsrFinal(got_final[1])
    /\ asr_pc' = "recv" /\ latest_audio' = NoAudio /\ got_final' = <<>>
    /\ UNCHANGED <<runVars, ds, settingsVars, pendingVars, captureVars, asr_req, asr_partial,
                   asr_model_loaded, mtChan, mtWorker, fileVars, uiVars, mainVars, tkVars,
                   plVars, wVars, ldVars, rec_count, partials_sent, pastes, cancelled,
                   late_partial>>

\* whisper.rs 126-131: run the newest partial, send its text on the partial channel
AsrRunPartial ==
    /\ asr_pc = "run" /\ got_final = <<>>
    /\ \E res \in TranscribeResults(asr_model_loaded) :
          IF res.ok
          THEN /\ asr_partial' = Append(asr_partial, [text |-> Trim(res.text),
                                                      rec |-> latest_audio.rec])
               /\ late_partial' = late_partial \cup ({latest_audio.rec} \cap final_done)
          ELSE UNCHANGED <<asr_partial, late_partial>>
    /\ asr_pc' = "recv" /\ latest_audio' = NoAudio
    /\ UNCHANGED <<runVars, ds, settingsVars, pendingVars, captureVars, asr_req, asr_resp,
                   asr_model_loaded, got_final, mtChan, mtWorker, fileVars, uiVars,
                   mainVars, tkVars, plVars, wVars, ldVars, rec_count, partials_sent,
                   pastes, cancelled, final_done>>

(* ---------------------------- the MT worker ---------------------------- *)

\* engine.rs 46-94: translate(job); raw is what the translator decodes
translate(loaded, job, raw) ==
    LET text == Trim(job.text)
        source == IF job.source_lang = "auto" THEN "en" ELSE job.source_lang
    IN IF ~loaded THEN [ok |-> FALSE, text |-> <<>>]
       ELSE IF text = <<>> THEN [ok |-> TRUE, text |-> <<>>]
       ELSE IF job.target_lang \notin SupportedLangs \/ source \notin SupportedLangs
            THEN [ok |-> FALSE, text |-> <<>>]
       ELSE IF source = job.target_lang THEN [ok |-> TRUE, text |-> text]
       ELSE IF raw = <<>> THEN [ok |-> FALSE, text |-> <<>>]
       ELSE IF Trim(raw[1]) = <<>> THEN [ok |-> TRUE, text |-> text]
       ELSE [ok |-> TRUE, text |-> Trim(raw[1])]

\* the translator's outcomes: an inference failure (None) or a decoded text
MtRawResults == { <<>> } \cup { <<raw>> : raw \in MtRawOutputs }
TranslateResults(loaded, job) == { translate(loaded, job, raw) : raw \in MtRawResults }

\* engine.rs 183-186, 208-211
MtLoadModel ==
    \E ok \in BOOLEAN :
        /\ mt_model_loaded' = (mt_model_loaded \/ ok)
        /\ mt_resp' = Append(mt_resp, ModelLoaded(ok))

\* engine.rs 191-194, 222-224
MtFinal(job) ==
    \E res \in TranslateResults(mt_model_loaded, job) :
        mt_resp' = Append(mt_resp, Complete("TranslationComplete", res, job.rec))

\* engine.rs 181-190: LoadModel is served at once
MtRecvLoad ==
    /\ mt_pc = "recv" /\ mt_req # <<>> /\ Head(mt_req).type = "LoadModel"
    /\ MtLoadModel
    /\ mt_req' = Tail(mt_req)
    /\ UNCHANGED <<runVars, ds, settingsVars, pendingVars, captureVars, asrChan, asrWorker,
                   mt_partial, mt_pc, latest_job, mt_got_final, fileVars, uiVars, mainVars,
                   tkVars, plVars, wVars, ldVars, bookVars>>

\* engine.rs 191-194
MtRecvFinal ==
    /\ mt_pc = "recv" /\ mt_req # <<>> /\ Head(mt_req).type = "Translate"
    /\ MtFinal(Head(mt_req).job)
    /\ mt_req' = Tail(mt_req)
    /\ UNCHANGED <<runVars, ds, settingsVars, pendingVars, captureVars, asrChan, asrWorker,
                   mt_partial, mtWorker, fileVars, uiVars, mainVars, tkVars, plVars, wVars,
                   ldVars, bookVars>>

\* engine.rs 195-198
MtRecvPartial ==
    /\ mt_pc = "recv" /\ mt_req # <<>> /\ Head(mt_req).type = "TranslatePartial"
    /\ latest_job' = Head(mt_req).job
    /\ mt_got_final' = <<>>
    /\ mt_req' = Tail(mt_req)
    /\ mt_pc' = "drain"
    /\ UNCHANGED <<runVars, ds, settingsVars, pendingVars, captureVars, asrChan, asrWorker,
                   mt_resp, mt_partial, mt_model_loaded, fileVars, uiVars, mainVars,
                   tkVars, plVars, wVars, ldVars, bookVars>>

\* engine.rs 199-220
MtDrainStep(q) ==
    CASE q.type = "TranslatePartial" ->
            /\ latest_job' = q.job
            /\ UNCHANGED <<mt_got_final, mt_pc, mt_model_loaded, mt_resp>>
      [] q.type = "Translate" ->
            /\ mt_got_final' = <<q.job>>
            /\ mt_pc' = "run"
            /\ UNCHANGED <<latest_job, mt_model_loaded, mt_resp>>
      [] q.type = "LoadModel" ->
            /\ MtLoadModel
            /\ UNCHANGED <<latest_job, mt_got_final, mt_pc>>

MtDrain ==
    /\ mt_pc = "drain" /\ mt_req # <<>> /\ Head(mt_req).type # "SetLanguages"
    /\ MtDrainStep(Head(mt_req))
    /\ mt_req' = Tail(mt_req)
    /\ UNCHANGED <<runVars, ds, settingsVars, pendingVars, captureVars, asrChan, asrWorker,
                   mt_partial, fileVars, uiVars, mainVars, tkVars, plVars, wVars, ldVars,
                   bookVars>>

MtDrainEnd ==
    /\ mt_pc = "drain" /\ mt_req = <<>>
    /\ mt_pc' = "run"
    /\ UNCHANGED <<runVars, ds, settingsVars, pendingVars, captureVars, asrChan, asrWorker, mtChan,
                   mt_model_loaded, latest_job, mt_got_final, fileVars, uiVars, mainVars,
                   tkVars, plVars, wVars, ldVars, bookVars>>

\* engine.rs 222-224
MtRunFinal ==
    /\ mt_pc = "run" /\ mt_got_final # <<>>
    /\ MtFinal(mt_got_final[1])
    /\ mt_pc' = "recv" /\ latest_job' = NoJob /\ mt_got_final' = <<>>
    /\ UNCHANGED <<runVars, ds, settingsVars, pendingVars, captureVars, asrChan, asrWorker,
                   mt_req, mt_partial, mt_model_loaded, fileVars, uiVars, mainVars, tkVars,
                   plVars, wVars, ldVars, bookVars>>

\* engine.rs 225-230
MtRunPartial ==
    /\ mt_pc = "run" /\ mt_got_final = <<>>
    /\ \E res \in TranslateResults(mt_model_loaded, latest_job) :
          IF res.ok
          THEN mt_partial' = Append(mt_partial, [text |-> Trim(res.text),
                                                 rec |-> latest_job.rec])
          ELSE UNCHANGED mt_partial
    /\ mt_pc' = "recv" /\ latest_job' = NoJob
    /\ UNCHANGED <<runVars, ds, settingsVars, pendingVars, captureVars, asrChan, asrWorker,
                   mt_req, mt_resp, mt_model_loaded, mt_got_final, fileVars, uiVars,
                   mainVars, tkVars, plVars, wVars, ldVars, bookVars>>

\* engine.rs 187-190, 212-215: SetLanguages stores two fields translate() never reads
MtSetLanguages ==
    /\ mt_pc \in {"recv", "drain"} /\ mt_req # <<>> /\ Head(mt_req).type = "SetLanguages"
    /\ mt_req' = Tail(mt_req)
    /\ UNCHANGED <<runVars, ds, settingsVars, pendingVars, captureVars, asrChan, asrWorker,
                   mt_resp, mt_partial, mtWorker, fileVars, uiVars, mainVars, tkVars,
                   plVars, wVars, ldVars, bookVars>>

(* ------------- the thread that waits for the final result -------------- *)

\* the thread ends: its locals are dropped; what it last received is kept on record
WReset(r) ==
    /\ w_dur' = [w_dur EXCEPT ![r] = 0]
    /\ UNCHANGED w_resp
    /\ w_text' = [w_text EXCEPT ![r] = <<>>]
    /\ w_set' = [w_set EXCEPT ![r] = NoSettings]
    /\ w_corr' = [w_corr EXCEPT ![r] = <<>>]
    /\ w_from' = [w_from EXCEPT ![r] = 0]

\* variant: a full history drops the entry at the front
add_entry_front(entries, entry) ==
    LET inserted == <<entry>> \o entries
    IN IF Len(inserted) > MAX_HISTORY_ENTRIES
       THEN SubSeq(inserted, 2, MAX_HISTORY_ENTRIES + 1)
       ELSE inserted

\* history.rs 46-53: add_entry inserts at the front and truncates to the cap
add_entry(entries, entry) ==
    LET inserted == <<entry>> \o entries
    IN IF Len(inserted) > MAX_HISTORY_ENTRIES
       THEN SubSeq(inserted, 1, MAX_HISTORY_ENTRIES)
       ELSE inserted

\* history::delete_entry: retain the entries with another id
delete_entry(entries, id) == SelectSeq(entries, LAMBDA e : e.id # id)

\* history::clear_history
clear_history == <<>>

\* a history file of n entries written by earlier runs, newest first
Saved(n) == [i \in 1..n |-> [text |-> <<"o", "k">>, id |-> n + 1 - i, duration_ms |-> 1,
                              rec |-> 0, from_rec |-> 0]]

\* the text before the vocabulary
SourceTextRaw(r) == w_text[r]

\* lib.rs 679-681: the corrected text if corrections were applied, else the trimmed text
SourceText(r) == IF w_corr[r] # <<>> THEN w_corr[r][1].text ELSE w_text[r]

\* lib.rs 627-632: what recv_timeout(60 s) on the final channel returns
FinalRecv == IF asr_resp # <<>> THEN Head(asr_resp) ELSE Timeout

\* lib.rs 627-636, 876, 893: the receive returns an empty text, an error or a timeout
WaiterRecv(r) ==
    /\ w_pc[r] = "recv"
    /\ \/ FinalRecv.type = "Timeout"
       \/ FinalRecv.type = "TranscriptionComplete" /\ ~FinalRecv.ok
       \/ FinalRecv.type = "TranscriptionComplete" /\ Trim(FinalRecv.text) = <<>>
    /\ w_resp' = [w_resp EXCEPT ![r] = FinalRecv]
    /\ asr_resp' = IF asr_resp # <<>> THEN Tail(asr_resp) ELSE asr_resp
    /\ w_pc' = [w_pc EXCEPT ![r] = "handle"]
    /\ UNCHANGED <<runVars, ds, settingsVars, pendingVars, captureVars, asr_req, asr_partial,
                   asrWorker, mtChan, mtWorker, fileVars, uiVars, mainVars, tkVars, plVars,
                   w_dur, w_text, w_set, w_corr, w_from, ldVars, bookVars>>

\* the empty text is pasted like any other
WaiterEmptyPastes(r) ==
    /\ w_pc[r] = "handle"
    /\ w_resp[r].type = "TranscriptionComplete" /\ w_resp[r].ok
    /\ main_tasks' = Append(main_tasks, [text |-> <<>>, rec |-> r, from_rec |-> w_resp[r].rec])
    /\ w_pc' = [w_pc EXCEPT ![r] = "done"]
    /\ WReset(r)
    /\ UNCHANGED <<runVars, ds, settingsVars, pendingVars, captureVars, asrChan, asrWorker, mtChan,
                   mtWorker, fileVars, uiVars, main_pc, main_audio, main_dur,
                   tkVars, plVars, ldVars, bookVars>>

\* lib.rs 635-648: an empty final text: back to Idle
WaiterEmpty(r) ==
    /\ w_pc[r] = "handle"
    /\ w_resp[r].type = "TranscriptionComplete" /\ w_resp[r].ok
    /\ ds' = Idle
    /\ emit_state(Idle)
    /\ overlay_visible' = FALSE
    /\ w_pc' = [w_pc EXCEPT ![r] = "done"]
    /\ WReset(r)
    /\ UNCHANGED <<runVars, settingsVars, pendingVars, captureVars, asrChan, asrWorker, mtChan,
                   mtWorker, fileVars, mainVars, tkVars, plVars, ldVars, bookVars>>

\* lib.rs 627-636, 648: the receive returns a non-empty final text, which goes on
WaiterText(r) ==
    /\ w_pc[r] = "recv"
    /\ FinalRecv.type = "TranscriptionComplete" /\ FinalRecv.ok
    /\ Trim(FinalRecv.text) # <<>>
    /\ asr_resp' = Tail(asr_resp)
    /\ w_text' = [w_text EXCEPT ![r] = Trim(FinalRecv.text)]
    /\ w_from' = [w_from EXCEPT ![r] = FinalRecv.rec]
    /\ w_pc' = [w_pc EXCEPT ![r] = "settings"]
    /\ UNCHANGED <<runVars, ds, settingsVars, pendingVars, captureVars, asr_req, asr_partial,
                   asrWorker, mtChan, mtWorker, fileVars, uiVars, mainVars, tkVars, plVars,
                   w_dur, w_resp, w_set, w_corr, ldVars, bookVars>>

\* the failure resets the state to Idle instead of reporting it
WaiterErrorToIdle(r) ==
    /\ w_pc[r] = "handle"
    /\ ~(w_resp[r].type = "TranscriptionComplete" /\ w_resp[r].ok)
    /\ ds' = Idle
    /\ emit_state(ds')
    /\ w_pc' = [w_pc EXCEPT ![r] = "done"]
    /\ WReset(r)
    /\ UNCHANGED <<runVars, settingsVars, pendingVars, captureVars, asrChan, asrWorker, mtChan,
                   mtWorker, fileVars, overlay_visible, mainVars, tkVars, plVars, ldVars,
                   bookVars>>

\* lib.rs 876-888 (the worker's error) and 893-904 (timeout): state := Error
WaiterError(r) ==
    /\ w_pc[r] = "handle"
    /\ \/ /\ w_resp[r].type = "TranscriptionComplete" /\ ~w_resp[r].ok
          /\ ds' = ErrorState("Transcription failed")
       \/ /\ w_resp[r].type = "Timeout"
          /\ ds' = ErrorState("Transcription timed out")
    /\ emit_state(ds')
    /\ w_pc' = [w_pc EXCEPT ![r] = "done"]
    /\ WReset(r)
    /\ UNCHANGED <<runVars, settingsVars, pendingVars, captureVars, asrChan, asrWorker, mtChan,
                   mtWorker, fileVars, overlay_visible, mainVars, tkVars, plVars, ldVars,
                   bookVars>>

\* lib.rs 627-632, 889-892: the receive returns any other response: logged and dropped
WaiterUnexpected(r) ==
    /\ w_pc[r] = "recv"
    /\ FinalRecv.type = "ModelLoaded"
    /\ asr_resp' = Tail(asr_resp)
    /\ w_pc' = [w_pc EXCEPT ![r] = "done"]
    /\ WReset(r)
    /\ UNCHANGED <<runVars, ds, settingsVars, pendingVars, captureVars, asr_req, asr_partial,
                   asrWorker, mtChan, mtWorker, fileVars, uiVars, mainVars, tkVars, plVars,
                   ldVars, bookVars>>

\* lib.rs 649-665: read the settings under the state lock
WaiterSettings(r) ==
    /\ w_pc[r] = "settings"
    /\ w_set' = [w_set EXCEPT ![r] =
           [vocab_enabled |-> vocab_enabled, translation_enabled |-> translation_enabled,
            source_lang |-> source_language_for_translation(language),
            target_lang |-> translation_target_lang]]
    /\ w_pc' = [w_pc EXCEPT ![r] = "history"]
    /\ UNCHANGED <<runVars, ds, settingsVars, pendingVars, captureVars, asrChan, asrWorker, mtChan,
                   mtWorker, fileVars, uiVars, mainVars, tkVars, plVars, w_dur, w_resp,
                   w_text, w_corr, w_from, ldVars, bookVars>>

\* lib.rs 667-677: the corrections, None if there are none or the vocabulary is off
CorrectionResult(enabled, text, entries) ==
    IF enabled /\ apply_corrections(text, entries).corrections # <<>>
    THEN <<apply_corrections(text, entries)>>
    ELSE <<>>

\* variant: the entry holds the text as the recognizer returned it
WaiterHistoryRawText(r) ==
    /\ w_pc[r] = "history"
    /\ w_corr' = [w_corr EXCEPT ![r] =
                      CorrectionResult(w_set[r].vocab_enabled, w_text[r], vocabulary)]
    /\ history' = add_entry(history,
                      [text |-> w_text[r],
                       id |-> now + 1, duration_ms |-> w_dur[r],
                       rec |-> r, from_rec |-> w_from[r]])
    /\ now' = now + 1
    /\ w_pc' = [w_pc EXCEPT ![r] =
                   IF w_set[r].translation_enabled THEN "translating"
                   ELSE IF w_corr'[r] # <<>> THEN "preview" ELSE "paste"]
    /\ UNCHANGED <<runVars, ds, settingsVars, pendingVars, captureVars, asrChan, asrWorker, mtChan,
                   mtWorker, vocabulary, uiVars, mainVars, tkVars, plVars, w_dur, w_resp,
                   w_text, w_set, w_from, ldVars, bookVars>>

\* lib.rs 667-697: apply the vocabulary, insert the history entry, pick the next step
WaiterHistory(r) ==
    /\ w_pc[r] = "history"
    /\ w_corr' = [w_corr EXCEPT ![r] =
                      CorrectionResult(w_set[r].vocab_enabled, w_text[r], vocabulary)]
    /\ history' = add_entry(history,
                      [text |-> IF w_corr'[r] # <<>> THEN w_corr'[r][1].text ELSE w_text[r],
                       id |-> now + 1, duration_ms |-> w_dur[r],
                       rec |-> r, from_rec |-> w_from[r]])
    /\ now' = now + 1
    /\ w_pc' = [w_pc EXCEPT ![r] =
                   IF w_set[r].translation_enabled THEN "translating"
                   ELSE IF w_corr'[r] # <<>> THEN "preview" ELSE "paste"]
    /\ UNCHANGED <<runVars, ds, settingsVars, pendingVars, captureVars, asrChan, asrWorker, mtChan,
                   mtWorker, vocabulary, uiVars, mainVars, tkVars, plVars, w_dur, w_resp,
                   w_text, w_set, w_from, ldVars, bookVars>>

\* lib.rs 698-704: state := Translating, emit
WaiterTranslating(r) ==
    /\ w_pc[r] = "translating"
    /\ ds' = Translating
    /\ emit_state(Translating)
    /\ w_pc' = [w_pc EXCEPT ![r] = "mtsend"]
    /\ UNCHANGED <<runVars, settingsVars, pendingVars, captureVars, asrChan, asrWorker, mtChan,
                   mtWorker, fileVars, overlay_visible, mainVars, tkVars, plVars, w_dur,
                   w_resp, w_text, w_set, w_corr, w_from, ldVars, bookVars>>

\* lib.rs 706-715: send Translate(job)
WaiterMtSend(r) ==
    /\ w_pc[r] = "mtsend"
    /\ Len(mt_req) < MaxMtQueue
    /\ mt_req' = Append(mt_req, [type |-> "Translate",
                                 job |-> [text |-> SourceText(r),
                                          source_lang |-> w_set[r].source_lang,
                                          target_lang |-> w_set[r].target_lang,
                                          rec |-> r]])
    /\ w_pc' = [w_pc EXCEPT ![r] = "mtwait"]
    /\ UNCHANGED <<runVars, ds, settingsVars, pendingVars, captureVars, asrChan, asrWorker,
                   mt_resp, mt_partial, mtWorker, fileVars, uiVars, mainVars, tkVars,
                   plVars, w_dur, w_resp, w_text, w_set, w_corr, w_from, ldVars, bookVars>>

\* lib.rs 717-722: recv_timeout(30 s) on the translation channel
WaiterMtWait(r) ==
    /\ w_pc[r] = "mtwait"
    /\ IF mt_resp # <<>>
       THEN /\ w_resp' = [w_resp EXCEPT ![r] = Head(mt_resp)]
            /\ mt_resp' = Tail(mt_resp)
       ELSE /\ w_resp' = [w_resp EXCEPT ![r] = Timeout]
            /\ UNCHANGED mt_resp
    /\ w_pc' = [w_pc EXCEPT ![r] = "mthandle"]
    /\ UNCHANGED <<runVars, ds, settingsVars, pendingVars, captureVars, asrChan, asrWorker,
                   mt_req, mt_partial, mtWorker, fileVars, uiVars, mainVars, tkVars,
                   plVars, w_dur, w_text, w_set, w_corr, w_from, ldVars, bookVars>>

\* lib.rs 724-750: a translation arrived: store the pending texts, show the preview
WaiterTranslationPreview(r) ==
    /\ w_pc[r] = "mthandle"
    /\ w_resp[r].type = "TranslationComplete" /\ w_resp[r].ok
    /\ LET translated == IF Trim(w_resp[r].text) = <<>> THEN SourceText(r)
                         ELSE Trim(w_resp[r].text)
       IN /\ pending_source_text' = <<SourceText(r)>>
          /\ pending_translated_text' = <<translated>>
          /\ ds' = [type |-> "TranslationPreview", source_text |-> SourceText(r),
                    translated_text |-> translated,
                    source_lang |-> w_set[r].source_lang,
                    target_lang |-> w_set[r].target_lang,
                    rec |-> r, from_rec |-> w_from[r], mt_from_rec |-> w_resp[r].rec]
    /\ emit_state(ds')
    /\ w_pc' = [w_pc EXCEPT ![r] = "done"]
    /\ WReset(r)
    /\ UNCHANGED <<runVars, settingsVars, pending_original_text, pending_corrected_text,
                   captureVars, asrChan, asrWorker, mtChan, mtWorker, fileVars,
                   overlay_visible, mainVars, tkVars, plVars, ldVars, bookVars>>

\* a failed translation is reported as an error and nothing is pasted
WaiterTranslationFails(r) ==
    /\ w_pc[r] = "mthandle"
    /\ ~(w_resp[r].type = "TranslationComplete" /\ w_resp[r].ok)
    /\ ds' = ErrorState("Translation failed")
    /\ emit_state(ds')
    /\ w_pc' = [w_pc EXCEPT ![r] = "done"]
    /\ WReset(r)
    /\ UNCHANGED <<runVars, settingsVars, pendingVars, captureVars, asrChan, asrWorker, mtChan,
                   mtWorker, fileVars, overlay_visible, mainVars, tkVars, plVars, ldVars,
                   bookVars>>

\* lib.rs 751-823: the translation failed, timed out or was another response:
\* schedule the paste of the source text on the main thread
WaiterTranslationFallback(r) ==
    /\ w_pc[r] = "mthandle"
    /\ ~(w_resp[r].type = "TranslationComplete" /\ w_resp[r].ok)
    /\ main_tasks' = Append(main_tasks, [text |-> SourceText(r), rec |-> r, from_rec |-> w_from[r]])
    /\ w_pc' = [w_pc EXCEPT ![r] = "done"]
    /\ WReset(r)
    /\ UNCHANGED <<runVars, ds, settingsVars, pendingVars, captureVars, asrChan, asrWorker, mtChan,
                   mtWorker, fileVars, uiVars, main_pc, main_audio, main_dur, tkVars, plVars, ldVars, bookVars>>

\* lib.rs 824-838: corrections were applied: store the pending texts, show the preview
WaiterCorrectionPreview(r) ==
    /\ w_pc[r] = "preview"
    /\ pending_original_text' = <<w_text[r]>>
    /\ pending_corrected_text' = <<w_corr[r][1].text>>
    /\ ds' = [type |-> "CorrectionPreview", text |-> w_corr[r][1].text,
              original_text |-> w_text[r], corrections |-> w_corr[r][1].corrections,
              rec |-> r, from_rec |-> w_from[r]]
    /\ emit_state(ds')
    /\ w_pc' = [w_pc EXCEPT ![r] = "done"]
    /\ WReset(r)
    /\ UNCHANGED <<runVars, settingsVars, pending_source_text, pending_translated_text,
                   captureVars, asrChan, asrWorker, mtChan, mtWorker, fileVars,
                   overlay_visible, mainVars, tkVars, plVars, ldVars, bookVars>>

\* lib.rs 839-843: nothing to preview: schedule the paste on the main thread
WaiterPaste(r) ==
    /\ w_pc[r] = "paste"
    /\ main_tasks' = Append(main_tasks, [text |-> SourceText(r), rec |-> r, from_rec |-> w_from[r]])
    /\ w_pc' = [w_pc EXCEPT ![r] = "done"]
    /\ WReset(r)
    /\ UNCHANGED <<runVars, ds, settingsVars, pendingVars, captureVars, asrChan, asrWorker, mtChan,
                   mtWorker, fileVars, uiVars, main_pc, main_audio, main_dur, tkVars, plVars, ldVars, bookVars>>

(* ----------------- the paste closure (main thread) --------------------- *)

\* lib.rs 843-872 (and 755-786, 791-822): the closure pastes on the main thread;
\* Error if the paste failed, else Idle and hide the overlay
MainPaste ==
    /\ main_pc = "idle" /\ main_tasks # <<>>
    /\ pastes' = Append(pastes, Head(main_tasks))
    /\ main_tasks' = Tail(main_tasks)
    /\ \E ok \in BOOLEAN :
          IF ok
          THEN ds' = Idle /\ overlay_visible' = FALSE
          ELSE ds' = ErrorState("Failed to paste") /\ UNCHANGED overlay_visible
    /\ emit_state(ds')
    /\ UNCHANGED <<runVars, settingsVars, pendingVars, captureVars, asrChan, asrWorker, mtChan,
                   mtWorker, fileVars, main_pc, main_audio, main_dur, tkVars, plVars, wVars,
                   ldVars, rec_count, partials_sent, cancelled, final_done, late_partial>>

(* ------------- the preview commands (main thread) ---------------------- *)

\* history::update_most_recent_text: the newest entry's text is replaced in place
update_most_recent_text(entries, text) ==
    IF entries = <<>> THEN entries
    ELSE <<[entries[1] EXCEPT !.text = text]>> \o Tail(entries)

\* the closure a preview command hands to run_on_main_thread; called on the main
\* thread, it is the next thing the main thread runs
PreviewTask(text) ==
    [text |-> text,
     rec |-> IF ds.type \in PreviewTypes THEN ds.rec ELSE 0,
     from_rec |-> IF ds.type \in PreviewTypes THEN ds.from_rec ELSE 0]

\* accept_corrections pastes the original text
AcceptCorrectionsOriginal ==
    /\ main_pc = "idle"
    /\ pending_corrected_text # <<>>
    /\ main_tasks' = <<PreviewTask(IF pending_original_text # <<>>
                                   THEN pending_original_text[1]
                                   ELSE pending_corrected_text[1])>> \o main_tasks
    /\ pending_corrected_text' = <<>>
    /\ pending_original_text' = <<>>
    /\ main_pc' = "cmd_paste"
    /\ UNCHANGED <<runVars, ds, settingsVars, pending_source_text, pending_translated_text,
                   captureVars, asrChan, asrWorker, mtChan, mtWorker, fileVars, uiVars,
                   main_audio, main_dur, tkVars, plVars, wVars, ldVars, bookVars>>

\* lib.rs 1343-1352: accept_corrections takes the pending corrected text (an error
\* return if there is none), clears the pending original text
AcceptCorrections ==
    /\ main_pc = "idle"
    /\ pending_corrected_text # <<>>
    /\ main_tasks' = <<PreviewTask(pending_corrected_text[1])>> \o main_tasks
    /\ pending_corrected_text' = <<>>
    /\ pending_original_text' = <<>>
    /\ main_pc' = "cmd_paste"
    /\ UNCHANGED <<runVars, ds, settingsVars, pending_source_text, pending_translated_text,
                   captureVars, asrChan, asrWorker, mtChan, mtWorker, fileVars, uiVars,
                   main_audio, main_dur, tkVars, plVars, wVars, ldVars, bookVars>>

\* lib.rs 1391-1407: undo_corrections takes the pending original text, clears the
\* pending corrected text, rewrites the newest history entry
UndoCorrections ==
    /\ main_pc = "idle"
    /\ pending_original_text # <<>>
    /\ main_tasks' = <<PreviewTask(pending_original_text[1])>> \o main_tasks
    /\ history' = update_most_recent_text(history, pending_original_text[1])
    /\ pending_original_text' = <<>>
    /\ pending_corrected_text' = <<>>
    /\ main_pc' = "cmd_paste"
    /\ UNCHANGED <<runVars, ds, settingsVars, pending_source_text, pending_translated_text,
                   captureVars, asrChan, asrWorker, mtChan, mtWorker, vocabulary, now, uiVars,
                   main_audio, main_dur, tkVars, plVars, wVars, ldVars, bookVars>>

\* accept_translation leaves the history as it is
AcceptTranslationKeepsHistory ==
    /\ main_pc = "idle"
    /\ pending_translated_text # <<>>
    /\ main_tasks' = <<PreviewTask(pending_translated_text[1])>> \o main_tasks
    /\ pending_translated_text' = <<>>
    /\ pending_source_text' = <<>>
    /\ main_pc' = "cmd_paste"
    /\ UNCHANGED <<runVars, ds, settingsVars, pending_original_text, pending_corrected_text,
                   captureVars, asrChan, asrWorker, mtChan, mtWorker, fileVars, uiVars,
                   main_audio, main_dur, tkVars, plVars, wVars, ldVars, bookVars>>

\* lib.rs 1445-1458: accept_translation takes the pending translated text, clears
\* the pending source text, rewrites the newest history entry
AcceptTranslation ==
    /\ main_pc = "idle"
    /\ pending_translated_text # <<>>
    /\ main_tasks' = <<PreviewTask(pending_translated_text[1])>> \o main_tasks
    /\ history' = update_most_recent_text(history, pending_translated_text[1])
    /\ pending_translated_text' = <<>>
    /\ pending_source_text' = <<>>
    /\ main_pc' = "cmd_paste"
    /\ UNCHANGED <<runVars, ds, settingsVars, pending_original_text, pending_corrected_text,
                   captureVars, asrChan, asrWorker, mtChan, mtWorker, vocabulary, now, uiVars,
                   main_audio, main_dur, tkVars, plVars, wVars, ldVars, bookVars>>

\* lib.rs 1496-1504: reject_translation takes the pending source text, clears the
\* pending translated text
RejectTranslation ==
    /\ main_pc = "idle"
    /\ pending_source_text # <<>>
    /\ main_tasks' = <<PreviewTask(pending_source_text[1])>> \o main_tasks
    /\ pending_source_text' = <<>>
    /\ pending_translated_text' = <<>>
    /\ main_pc' = "cmd_paste"
    /\ UNCHANGED <<runVars, ds, settingsVars, pending_original_text, pending_corrected_text,
                   captureVars, asrChan, asrWorker, mtChan, mtWorker, fileVars, uiVars,
                   main_audio, main_dur, tkVars, plVars, wVars, ldVars, bookVars>>

\* lib.rs 1356-1380 (and 1411-1435, 1462-1486, 1508-1532): the command's closure
\* pastes; Error if the paste failed, else Idle and hide the overlay
CommandPaste ==
    /\ main_pc = "cmd_paste"
    /\ pastes' = Append(pastes, Head(main_tasks))
    /\ main_tasks' = Tail(main_tasks)
    /\ \E ok \in BOOLEAN :
          IF ok
          THEN ds' = Idle /\ overlay_visible' = FALSE
          ELSE ds' = ErrorState("Failed to paste") /\ UNCHANGED overlay_visible
    /\ emit_state(ds')
    /\ main_pc' = "idle"
    /\ UNCHANGED <<runVars, settingsVars, pendingVars, captureVars, asrChan, asrWorker, mtChan,
                   mtWorker, fileVars, main_audio, main_dur, tkVars, plVars, wVars,
                   ldVars, rec_count, partials_sent, cancelled, final_done, late_partial>>

\* the ids the history window can ask to delete: the newest entry, the oldest entry,
\* an entry that is not there
DeleteIds == {0} \cup (IF history = <<>> THEN {}
                       ELSE {history[1].id, history[Len(history)].id})

\* delete_history_entry (main thread), modelled while the history is nearly full or
\* nearly empty
DeleteHistoryEntry ==
    /\ main_pc = "idle"
    /\ Len(history) + MaxDel >= MAX_HISTORY_ENTRIES \/ Len(history) <= MaxDel
    /\ \E id \in DeleteIds : history' = delete_entry(history, id)
    /\ UNCHANGED <<runVars, ds, settingsVars, pendingVars, captureVars, asrChan, asrWorker,
                   mtChan, mtWorker, vocabulary, now, uiVars, mainVars, tkVars, plVars, wVars,
                   ldVars, bookVars>>

\* clear_history (main thread)
ClearHistory ==
    /\ main_pc = "idle"
    /\ history' = clear_history
    /\ UNCHANGED <<runVars, ds, settingsVars, pendingVars, captureVars, asrChan, asrWorker,
                   mtChan, mtWorker, vocabulary, now, uiVars, mainVars, tkVars, plVars, wVars,
                   ldVars, bookVars>>

(* --------------------- setup_model / load_model ------------------------ *)

\* setup_model: the model file is there, or the download starts
LoaderSetup ==
    /\ ld_pc = "setup"
    /\ \/ /\ ld_pc' = "send"
          /\ UNCHANGED <<ds, uiVars>>
       \/ /\ ds' = Downloading
          /\ emit_state(Downloading)
          /\ overlay_visible' = TRUE
          /\ ld_pc' = "download"
    /\ UNCHANGED <<runVars, settingsVars, pendingVars, captureVars, asrChan, asrWorker, mtChan,
                   mtWorker, fileVars, mainVars, tkVars, plVars, wVars, ld_resp, tl_pc,
                   bookVars>>

\* the progress callback of download_model: emits a Downloading state, writes nothing
LoaderProgress ==
    /\ ld_pc = "download"
    /\ emit_state(Downloading)
    /\ UNCHANGED <<runVars, ds, settingsVars, pendingVars, captureVars, asrChan, asrWorker,
                   mtChan, mtWorker, fileVars, overlay_visible, mainVars, tkVars, plVars, wVars,
                   ldVars, bookVars>>

\* the download succeeded: load_model
LoaderDownloaded ==
    /\ ld_pc = "download"
    /\ ld_pc' = "send"
    /\ UNCHANGED <<runVars, ds, settingsVars, pendingVars, captureVars, asrChan, asrWorker,
                   mtChan, mtWorker, fileVars, uiVars, mainVars, tkVars, plVars, wVars,
                   ld_resp, tl_pc, bookVars>>

\* the download failed
LoaderDownloadFailed ==
    /\ ld_pc = "download"
    /\ ds' = ErrorState("Model download failed")
    /\ emit_state(ds')
    /\ ld_pc' = "done"
    /\ UNCHANGED <<runVars, settingsVars, pendingVars, captureVars, asrChan, asrWorker, mtChan,
                   mtWorker, fileVars, overlay_visible, mainVars, tkVars, plVars, wVars,
                   ld_resp, tl_pc, bookVars>>

\* lib.rs 1701-1706: send LoadModel
LoaderSend ==
    /\ ld_pc = "send"
    /\ asr_req' = Append(asr_req, [type |-> "LoadModel", audio |-> NoAudio])
    /\ ld_pc' = "wait"
    /\ UNCHANGED <<runVars, ds, settingsVars, pendingVars, captureVars, asr_resp, asr_partial,
                   asrWorker, mtChan, mtWorker, fileVars, uiVars, mainVars, tkVars, plVars,
                   wVars, ld_resp, tl_pc, bookVars>>

\* lib.rs 1708-1716: recv_timeout(30 s) on the final channel returns ModelLoaded or times out
LoaderWait ==
    /\ ld_pc = "wait"
    /\ FinalRecv.type \in {"ModelLoaded", "Timeout"}
    /\ ld_resp' = FinalRecv
    /\ asr_resp' = IF asr_resp # <<>> THEN Tail(asr_resp) ELSE asr_resp
    /\ ld_pc' = "handle"
    /\ UNCHANGED <<runVars, ds, settingsVars, pendingVars, captureVars, asr_req, asr_partial,
                   asrWorker, mtChan, mtWorker, fileVars, uiVars, mainVars, tkVars, plVars,
                   wVars, tl_pc, bookVars>>

\* lib.rs 1717-1728: the model is loaded: state := Idle, hide the overlay
LoaderLoaded ==
    /\ ld_pc = "handle"
    /\ ld_resp.type = "ModelLoaded" /\ ld_resp.ok
    /\ ds' = Idle
    /\ emit_state(Idle)
    /\ overlay_visible' = FALSE
    /\ ld_pc' = "done" /\ ld_resp' = NoResp
    /\ UNCHANGED <<runVars, settingsVars, pendingVars, captureVars, asrChan, asrWorker, mtChan,
                   mtWorker, fileVars, mainVars, tkVars, plVars, wVars, tl_pc, bookVars>>

\* lib.rs 1729-1750: the load failed or timed out: state := Error
LoaderFailed ==
    /\ ld_pc = "handle"
    /\ \/ /\ ld_resp.type = "ModelLoaded" /\ ~ld_resp.ok
          /\ ds' = ErrorState("Failed to load model")
       \/ /\ ld_resp.type = "Timeout"
          /\ ds' = ErrorState("Model loading timed out")
    /\ emit_state(ds')
    /\ ld_pc' = "done" /\ ld_resp' = NoResp
    /\ UNCHANGED <<runVars, settingsVars, pendingVars, captureVars, asrChan, asrWorker, mtChan,
                   mtWorker, fileVars, overlay_visible, mainVars, tkVars, plVars, wVars, tl_pc,
                   bookVars>>

\* lib.rs 1708-1713, 1751-1753: the receive returns any other response: logged and dropped
LoaderUnexpected ==
    /\ ld_pc = "wait"
    /\ FinalRecv.type = "TranscriptionComplete"
    /\ asr_resp' = Tail(asr_resp)
    /\ ld_pc' = "done"
    /\ UNCHANGED <<runVars, ds, settingsVars, pendingVars, captureVars, asr_req, asr_partial,
                   asrWorker, mtChan, mtWorker, fileVars, uiVars, mainVars, tkVars, plVars,
                   wVars, ld_resp, tl_pc, bookVars>>

(* ------------------------------ settings ------------------------------- *)

\* lib.rs 1217-1232: set_vocab_enabled (a command on the main thread)
SetVocabEnabled ==
    /\ main_pc = "idle"
    /\ \E enabled \in BOOLEAN : vocab_enabled' = enabled
    /\ UNCHANGED <<runVars, ds, translation_enabled, language, translation_target_lang,
                   pendingVars, captureVars, asrChan, asrWorker, mtChan, mtWorker,
                   fileVars, uiVars, mainVars, tkVars, plVars, wVars, ldVars, bookVars>>

\* sync_translation_languages: the languages of the settings go to the MT worker
sync_translation_languages ==
    /\ Len(mt_req) < MaxMtQueue
    /\ mt_req' = Append(mt_req, [type |-> "SetLanguages", job |-> NoJob])

\* set_translation_enabled(false) (main thread): the flag, then the languages
SetTranslationDisabled ==
    /\ main_pc = "idle"
    /\ translation_enabled
    /\ translation_enabled' = FALSE
    /\ sync_translation_languages
    /\ UNCHANGED <<runVars, ds, vocab_enabled, language, translation_target_lang,
                   pendingVars, captureVars, asrChan, asrWorker, mt_resp, mt_partial,
                   mtWorker, fileVars, uiVars, mainVars, tkVars, plVars, wVars, ldVars,
                   bookVars>>

\* set_translation_target_lang (main thread): a Recording state takes the new target
SetTranslationTargetLang ==
    /\ main_pc = "idle"
    /\ \E target \in TargetLangs \ {translation_target_lang} :
          /\ translation_target_lang' = target
          /\ IF ds.type = "Recording"
             THEN ds' = [ds EXCEPT !.target_lang = target] /\ emit_state(ds')
             ELSE UNCHANGED <<ds, preview_keys_enabled>>
    /\ sync_translation_languages
    /\ UNCHANGED <<runVars, vocab_enabled, translation_enabled, language, pendingVars,
                   captureVars, asrChan, asrWorker, mt_resp, mt_partial, mtWorker, fileVars,
                   overlay_visible, mainVars, tkVars, plVars, wVars, ldVars, bookVars>>

(* --------------------- setup_translation_model ------------------------- *)

\* lib.rs 1034-1038: send LoadModel to the MT worker
TranslationLoaderSend ==
    /\ tl_pc = "send"
    /\ Len(mt_req) < MaxMtQueue
    /\ mt_req' = Append(mt_req, [type |-> "LoadModel", job |-> NoJob])
    /\ tl_pc' = "wait"
    /\ UNCHANGED <<runVars, ds, settingsVars, pendingVars, captureVars, asrChan, asrWorker,
                   mt_resp, mt_partial, mtWorker, fileVars, uiVars, mainVars, tkVars,
                   plVars, wVars, ld_pc, ld_resp, bookVars>>

\* lib.rs 1040-1064: recv_timeout(60 s) on the translation channel; the result is logged
TranslationLoaderWait ==
    /\ tl_pc = "wait"
    /\ mt_resp' = IF mt_resp # <<>> THEN Tail(mt_resp) ELSE mt_resp
    /\ tl_pc' = "done"
    /\ UNCHANGED <<runVars, ds, settingsVars, pendingVars, captureVars, asrChan, asrWorker,
                   mt_req, mt_partial, mtWorker, fileVars, uiVars, mainVars, tkVars,
                   plVars, wVars, ld_pc, ld_resp, bookVars>>

(* --------------------------- specification ----------------------------- *)

\* the main thread: toggle_recording, cancel_recording, the paste closures
MainNext ==
    \/ HotkeyRead \/ HotkeyIgnored \/ HotkeyStartFails \/ HotkeyStartCapture
    \/ HotkeyRecordingState \/ HotkeySpawn \/ HotkeyStopFlag \/ HotkeyStopTake
    \/ HotkeyStopEmpty \/ HotkeyStopDuration \/ HotkeyStopProcessing \/ HotkeyStopSend
    \/ HotkeyError
    \/ CancelRead \/ CancelFlag \/ CancelTake \/ CancelIdle
    \/ MainPaste

\* the final result of a recording, up to the history entry
ReceiveNext ==
    \/ AsrRecvLoad \/ AsrRecvFinal
    \/ \E r \in Recs : WaiterRecv(r) \/ WaiterEmpty(r) \/ WaiterText(r) \/ WaiterError(r)
                       \/ WaiterUnexpected(r) \/ WaiterSettings(r) \/ WaiterHistory(r)
    \/ LoaderSend \/ LoaderWait \/ LoaderLoaded \/ LoaderFailed \/ LoaderUnexpected

\* the final result of a recording, without translation
FinalNext ==
    \/ ReceiveNext
    \/ \E r \in Recs : WaiterCorrectionPreview(r) \/ WaiterPaste(r)

\* the commands of the correction preview
CorrectionCommandNext == AcceptCorrections \/ UndoCorrections \/ CommandPaste

\* the translation of the final text, and the commands of its preview
TranslationNext ==
    \/ AcceptTranslation \/ RejectTranslation
    \/ MtRecvLoad \/ MtRecvFinal \/ MtSetLanguages
    \/ \E r \in Recs : WaiterTranslating(r) \/ WaiterMtSend(r) \/ WaiterMtWait(r)
                       \/ WaiterTranslationPreview(r) \/ WaiterTranslationFallback(r)
    \/ TranslationLoaderSend \/ TranslationLoaderWait

\* the level and duration ticker of a recording
TickerNext == \E r \in Recs : TickerCheck(r) \/ TickerLevels(r) \/ TickerUpdate(r)
                                \/ TickerEmit(r)

\* the threads a recording spawns, and the worker's drain
StreamingNext ==
    \/ TickerNext
    \/ \E r \in Recs : PartialCheck(r) \/ PartialSnapshot(r) \/ PartialSend(r)
                       \/ PartialWait(r) \/ PartialFlag(r) \/ PartialRead(r)
                       \/ PartialWrite(r) \/ PartialEmit(r)
    \/ AsrRecvPartial \/ AsrDrain \/ AsrDrainEnd \/ AsrRunFinal \/ AsrRunPartial

\* the translation of the partial text
PartialTranslationNext ==
    \/ \E r \in Recs : PartialMtSend(r) \/ PartialMtWait(r)
    \/ MtRecvLoad \/ MtSetLanguages \/ MtRecvPartial \/ MtDrain \/ MtDrainEnd \/ MtRunPartial

\* the controller and the ASR worker, from the hotkey to the paste or the preview
Next == MainNext \/ CaptureAppend \/ FinalNext \/ SetVocabEnabled \/ CorrectionCommandNext

Spec == Init /\ [][Next]_vars

\* one recording, with the translation on or off in the configuration
TranslationInit == \E translation \in BOOLEAN : Startup(MaxRecWide, translation)

WithTranslationNext == Next \/ TranslationNext

TranslationSpec == TranslationInit /\ [][WithTranslationNext]_vars

\* two recordings with the translation on: the second can meet what the first left
RepeatInit == Startup(MaxRec, TRUE)

RepeatNext == MainNext \/ CaptureAppend \/ ReceiveNext \/ TranslationNext \/ CommandPaste

RepeatSpec == RepeatInit /\ [][RepeatNext]_vars

\* one recording with its duration ticker, with the translation on or off
DurationNext == WithTranslationNext \/ TickerNext

DurationSpec == TranslationInit /\ [][DurationNext]_vars

\* a run that starts with an empty, a nearly full or a full history file, with the
\* commands of the history window
HistoryInit ==
    \E n \in {0, MAX_HISTORY_ENTRIES - 1, MAX_HISTORY_ENTRIES} :
        StartupFrom(MaxRec, FALSE, Saved(n))

HistoryNext == MainNext \/ CaptureAppend \/ FinalNext \/ DeleteHistoryEntry \/ ClearHistory

HistorySpec == HistoryInit /\ [][HistoryNext]_vars

\* one recording in a run whose model file may have to be downloaded first
DownloadInit == \E translation \in BOOLEAN : StartupAt(MaxRecWide, translation, <<>>, "setup")

DownloadNext == LoaderSetup \/ LoaderProgress \/ LoaderDownloaded \/ LoaderDownloadFailed

DownloadSpec == DownloadInit /\ [][WithTranslationNext \/ DownloadNext]_vars

\* the translation commands of the settings window
TranslationSettingsNext ==
    \/ SetTranslationDisabled \/ SetTranslationTargetLang

\* one recording with its partial loop and the translation of the partial text; the
\* translation is on at the start and can be switched off in the settings window
PartialInit == Startup(MaxRecWide, TRUE)

PartialNext ==
    \/ HotkeyRead \/ HotkeyStartCapture \/ HotkeyRecordingState \/ HotkeySpawn
    \/ CaptureAppend \/ LoaderSend \/ AsrRecvLoad \/ LoaderWait \/ LoaderLoaded
    \/ \E r \in Recs : PartialCheck(r) \/ PartialSnapshot(r) \/ PartialSend(r)
                       \/ PartialWait(r) \/ PartialFlag(r) \/ PartialRead(r)
                       \/ PartialWrite(r) \/ PartialEmit(r)
    \/ AsrRecvPartial \/ AsrDrain \/ AsrDrainEnd \/ AsrRunPartial
    \/ TranslationLoaderSend \/ TranslationLoaderWait
    \/ PartialTranslationNext \/ TranslationSettingsNext

PartialSpec == PartialInit /\ [][PartialNext]_vars

\* two recordings that are started and cancelled, with their partial loops: the loop of
\* the first can still be running when the second starts
RestartInit == Startup(MaxRec, FALSE)

RestartNext ==
    \/ HotkeyRead \/ HotkeyStartCapture \/ HotkeyRecordingState \/ HotkeySpawn
    \/ CancelRead \/ CancelFlag \/ CancelTake \/ CancelIdle
    \/ CaptureAppend \/ LoaderSend \/ AsrRecvLoad \/ LoaderWait \/ LoaderLoaded
    \/ \E r \in Recs : PartialCheck(r) \/ PartialSnapshot(r) \/ PartialSend(r)
                       \/ PartialWait(r) \/ PartialFlag(r) \/ PartialRead(r)
                       \/ PartialWrite(r) \/ PartialEmit(r)
    \/ AsrRecvPartial \/ AsrDrain \/ AsrDrainEnd \/ AsrRunPartial

RestartSpec == RestartInit /\ [][RestartNext]_vars

\* what the scheduler guarantees: a handler that has started returns, and every thread
\* that can take a step takes it; the user's key presses are not guaranteed
HandlerNext ==
    \/ HotkeyStartFails \/ HotkeyStartCapture \/ HotkeyRecordingState \/ HotkeySpawn
    \/ HotkeyStopFlag \/ HotkeyStopTake \/ HotkeyStopEmpty \/ HotkeyStopDuration
    \/ HotkeyStopProcessing \/ HotkeyStopSend \/ HotkeyError \/ HotkeyIgnored
    \/ CancelFlag \/ CancelTake \/ CancelIdle
    \/ MainPaste \/ CommandPaste

WaiterNext(r) ==
    \/ WaiterRecv(r) \/ WaiterEmpty(r) \/ WaiterText(r) \/ WaiterError(r)
    \/ WaiterUnexpected(r) \/ WaiterSettings(r) \/ WaiterHistory(r)
    \/ WaiterCorrectionPreview(r) \/ WaiterPaste(r)
    \/ WaiterTranslating(r) \/ WaiterMtSend(r) \/ WaiterMtWait(r)
    \/ WaiterTranslationPreview(r) \/ WaiterTranslationFallback(r)

Fairness ==
    /\ WF_vars(HandlerNext)
    /\ WF_vars(AsrRecvLoad \/ AsrRecvFinal)
    /\ WF_vars(MtRecvLoad \/ MtRecvFinal \/ MtSetLanguages)
    /\ \A r \in Recs : WF_vars(WaiterNext(r))
    /\ WF_vars(LoaderSend \/ LoaderWait \/ LoaderLoaded \/ LoaderFailed \/ LoaderUnexpected)
    /\ WF_vars(TranslationLoaderSend \/ TranslationLoaderWait)

FairTranslationSpec == TranslationSpec /\ Fairness

\* one recording with its ticker and its partial loop
StreamInit == Startup(MaxRecWide, FALSE)

StreamNext == MainNext \/ CaptureAppend \/ FinalNext \/ StreamingNext

StreamSpec == StreamInit /\ [][StreamNext]_vars

(* ------------------------------- claims -------------------------------- *)

\* recording r never got past the capture: no Final request, no waiting thread,
\* no result, no history entry, no paste
NothingFinalFor(r) ==
    /\ main_audio.rec # r
    /\ w_pc[r] = "off"
    /\ r \notin final_done
    /\ \A i \in 1..Len(asr_req) : asr_req[i].audio.rec # r
                                  \/ asr_req[i].type # "Transcribe"
    /\ \A i \in 1..Len(history) : history[i].rec # r
    /\ \A i \in 1..Len(main_tasks) : main_tasks[i].rec # r
    /\ \A i \in 1..Len(pastes) : pastes[i].rec # r

PartialsThenFinal(m) ==
    \E k \in 1..Len(m) : /\ m[k].type = "Transcribe"
                         /\ \A i \in 1..(k - 1) : m[i].type = "TranscribePartial"

FirstFinal(m) ==
    m[CHOOSE k \in 1..Len(m) : /\ m[k].type = "Transcribe"
                               /\ \A i \in 1..(k - 1) : m[i].type # "Transcribe"].audio

\* the worker is about to receive, or is draining, a run of partial requests that a
\* Final follows
BatchHasFinal ==
    \/ /\ asr_pc = "recv" /\ asr_req # <<>> /\ Head(asr_req).type = "TranscribePartial"
       /\ PartialsThenFinal(asr_req)
    \/ asr_pc = "drain" /\ PartialsThenFinal(asr_req)
    \/ asr_pc = "run" /\ got_final # <<>>

BatchFinal == IF asr_pc = "run" THEN got_final[1] ELSE FirstFinal(asr_req)

\* C2: when the worker receives P1 with P2..Pk and then a Final F behind it, the batch
\* sends nothing on the partial channel, never runs the newest partial, and ends by
\* sending exactly one TranscriptionComplete, the one of F
C2_DrainRunsFinalOnly ==
    [][BatchHasFinal =>
         /\ Len(asr_partial') <= Len(asr_partial)
         /\ Len(asr_resp') > Len(asr_resp) =>
               /\ asr_pc = "run" /\ asr_pc' = "recv"
               /\ asr_resp' = Append(asr_resp, asr_resp'[Len(asr_resp')])
               /\ asr_resp'[Len(asr_resp')].type = "TranscriptionComplete"
               /\ asr_resp'[Len(asr_resp')].rec = BatchFinal.rec
         /\ \/ BatchHasFinal' /\ BatchFinal' = BatchFinal
            \/ asr_pc = "run" /\ asr_pc' = "recv" /\ Len(asr_resp') = Len(asr_resp) + 1
      ]_vars

\* the drain met the Final behind two partial requests
C2_Witness ==
    /\ asr_pc = "run" /\ got_final # <<>>
    /\ latest_audio # NoAudio /\ latest_audio.rec = got_final[1].rec
    /\ partials_sent = MaxPartials

\* C3: once the worker has sent the TranscriptionComplete of a recording's Final, it
\* sends no partial text made from a snapshot of that recording
C3_NoPartialAfterFinal == late_partial = {}

\* C4: the text that is pasted, previewed or written to the history for a recording
\* is the TranscriptionComplete of that recording's own Final; a result that arrives
\* after the wait gave up is never used
C4_FinalOfSameRecording ==
    /\ \A i \in 1..Len(history) : history[i].from_rec = history[i].rec
    /\ \A i \in 1..Len(main_tasks) : main_tasks[i].from_rec = main_tasks[i].rec
    /\ \A i \in 1..Len(pastes) : pastes[i].from_rec = pastes[i].rec
    /\ ds.type \in PreviewTypes => ds.from_rec = ds.rec

\* C5: a Processing or Translating state always ends: the state becomes Idle, Error,
\* CorrectionPreview or TranslationPreview, whatever responses the workers send
C5_BusyEnds ==
    (ds.type \in BusyTypes)
        ~> (ds.type \in {"Idle", "Error", "CorrectionPreview", "TranslationPreview"})

\* nothing of recording r reached the history, the paste queue or the clipboard
NoOutputFor(r) ==
    /\ \A i \in 1..Len(history) : history[i].rec # r
    /\ \A i \in 1..Len(main_tasks) : main_tasks[i].rec # r
    /\ \A i \in 1..Len(pastes) : pastes[i].rec # r

\* the wait of recording r ended with the worker's error or with the timeout
AsrFailed(r) ==
    /\ w_pc[r] = "done"
    /\ \/ w_resp[r].type = "Timeout"
       \/ w_resp[r].type = "TranscriptionComplete" /\ ~w_resp[r].ok

\* C6: when the wait for the final result ends with the worker's error or with the
\* timeout, the state becomes Error with a message, and that recording is never
\* pasted and never written to the history
C6_AsrFailureGivesError ==
    /\ [][\A r \in Recs : (w_pc[r] = "handle" /\ AsrFailed(r)')
            => (ds'.type = "Error" /\ ds'.message # "")]_vars
    /\ [](\A r \in Recs : AsrFailed(r) => NoOutputFor(r))

\* the wait timed out and the state is the timeout's Error
C6_Witness ==
    \E r \in Recs : /\ AsrFailed(r) /\ w_resp[r].type = "Timeout"
                    /\ ds = ErrorState("Transcription timed out")

StopPcs == {"hk_stop_flag", "hk_stop_take", "hk_stop_empty", "hk_stop_dur",
            "hk_stop_proc", "hk_stop_send"}

Finals(m) == {i \in 1..Len(m) : m[i].type = "Transcribe"}

\* C7: the Hotkey handler in Recording clears the streaming flag and takes the capture;
\* if the stopped buffer is empty after resampling the state becomes Idle and no
\* request is sent, else the state becomes Processing and the handler sends exactly one
\* Transcribe, carrying the resampled audio
C7_StopSendsFinalIffAudio ==
    [][/\ (main_pc = "hk_stop_flag" /\ main_pc' # main_pc) => ~streaming_active'
       /\ (main_pc = "hk_stop_take" /\ main_pc' # main_pc) =>
              /\ active_capture' = <<>>
              /\ main_audio'.len = IF active_capture = <<>> THEN 0
                                   ELSE ResampleLen(active_capture[1].buf,
                                                    active_capture[1].rate, TargetRate)
              /\ active_capture # <<>> => main_audio'.rec = active_capture[1].rec
       /\ (main_pc = "hk_stop_proc" /\ main_pc' # main_pc) => ds' = Processing
       /\ (main_pc \in StopPcs /\ main_pc' = "idle") =>
              IF main_audio.len = 0
              THEN ds' = Idle /\ asr_req' = asr_req
              ELSE asr_req' = Append(asr_req, [type |-> "Transcribe", audio |-> main_audio])
       /\ (main_pc \in StopPcs /\ main_pc' # "idle") =>
              Cardinality(Finals(asr_req')) <= Cardinality(Finals(asr_req))
      ]_vars

\* a capture at three times the target rate held one sample: nothing was sent
C7_Witness ==
    /\ main_pc = "hk_stop_empty" /\ main_audio.rec > 0 /\ main_audio.len = 0
    /\ streaming_active = FALSE /\ active_capture = <<>>
    /\ Finals(asr_req) = {}

\* the wait of recording r ended with an empty text
AsrEmpty(r) ==
    /\ w_pc[r] = "done"
    /\ w_resp[r].type = "TranscriptionComplete" /\ w_resp[r].ok
    /\ Trim(w_resp[r].text) = <<>>

\* no translation job and no preview of recording r
NoJobFor(r) ==
    /\ \A i \in 1..Len(mt_req) : mt_req[i].job.rec # r
    /\ ds.type \in PreviewTypes => ds.rec # r

\* C8: when the final text is empty after trimming, the state becomes Idle, and that
\* recording is never pasted, never written to the history, never translated and never
\* previewed
C8_EmptyTextGivesIdle ==
    /\ [][\A r \in Recs : (w_pc[r] = "handle" /\ AsrEmpty(r)') => ds' = Idle]_vars
    /\ [](\A r \in Recs : AsrEmpty(r) => (NoOutputFor(r) /\ NoJobFor(r)))

\* the empty result of a recording was handled with the translation on
C8_Witness ==
    \E r \in Recs : AsrEmpty(r) /\ w_resp[r].rec = r /\ ds = Idle /\ translation_enabled

\* the final text of recording r after the vocabulary, by the settings its thread read
PostVocabulary(r) ==
    IF w_set[r].vocab_enabled THEN apply_corrections(w_text[r], vocabulary).text
    ELSE w_text[r]

Corrected(r) ==
    /\ w_set[r].vocab_enabled
    /\ apply_corrections(w_text[r], vocabulary).corrections # <<>>

\* C9: for a non-empty final text the thread reads the settings once and decides by
\* them: with the translation on the state becomes Translating and one Translate job
\* with the text after the vocabulary is sent, nothing is pasted and no
\* CorrectionPreview is shown; else with the vocabulary on and a correction made the
\* state becomes CorrectionPreview and nothing is pasted; else the text is handed to
\* the paste closure, which pastes it and sets Idle (Error if the paste itself fails)
C9_DecisionBySettings ==
    /\ [](\A r \in Recs :
            /\ w_pc[r] \in {"translating", "mtsend", "mtwait", "mthandle"}
                  => w_set[r].translation_enabled
            /\ w_pc[r] = "preview" => (~w_set[r].translation_enabled /\ Corrected(r))
            /\ w_pc[r] = "paste" => (~w_set[r].translation_enabled /\ ~Corrected(r)))
    /\ [][\A r \in Recs :
            /\ (w_pc[r] = "settings" /\ w_pc'[r] # "settings") =>
                  /\ w_set'[r].vocab_enabled = vocab_enabled
                  /\ w_set'[r].translation_enabled = translation_enabled
            /\ (w_pc[r] = "translating" /\ w_pc'[r] # "translating") =>
                  /\ ds' = Translating
                  /\ main_tasks' = main_tasks /\ pastes' = pastes
            /\ (w_pc[r] = "mtsend" /\ w_pc'[r] # "mtsend") =>
                  /\ mt_req' = Append(mt_req,
                         [type |-> "Translate",
                          job |-> [text |-> PostVocabulary(r),
                                   source_lang |-> w_set[r].source_lang,
                                   target_lang |-> w_set[r].target_lang,
                                   rec |-> r]])
                  /\ main_tasks' = main_tasks /\ pastes' = pastes /\ ds' = ds
            /\ (w_pc[r] = "preview" /\ w_pc'[r] # "preview") =>
                  /\ ds'.type = "CorrectionPreview"
                  /\ ds'.text = PostVocabulary(r) /\ ds'.original_text = w_text[r]
                  /\ main_tasks' = main_tasks /\ pastes' = pastes /\ mt_req' = mt_req
            /\ (w_pc[r] = "paste" /\ w_pc'[r] # "paste") =>
                  /\ main_tasks' = Append(main_tasks, [text |-> PostVocabulary(r),
                                                       rec |-> r, from_rec |-> w_from[r]])
                  /\ mt_req' = mt_req /\ ds' = ds
         ]_vars
    /\ [][Len(pastes') > Len(pastes) =>
            /\ pastes' = Append(pastes, Head(main_tasks))
            /\ ds' = Idle \/ ds' = ErrorState("Failed to paste")]_vars

\* the corrected text is waiting for its translation: the vocabulary was on when the
\* thread read the settings and is off now
C9_Witness ==
    \E r \in Recs :
        /\ w_pc[r] = "mtwait" /\ ds = Translating /\ ~vocab_enabled
        /\ \E i \in 1..Len(mt_req) :
              /\ mt_req[i].type = "Translate"
              /\ mt_req[i].job.text = <<"t", "h", "e">>

\* the translation of recording r failed, timed out or was answered by another response
MtFailed(r) ==
    /\ w_pc[r] = "mthandle"
    /\ ~(w_resp[r].type = "TranslationComplete" /\ w_resp[r].ok)

\* C10: when the final translation fails or times out, the thread hands the text after
\* the vocabulary to the paste closure and leaves the state and the pending texts
\* alone; the closure pastes it and sets Idle, and only a failed paste gives Error
C10_TranslationFailurePastes ==
    /\ [][\A r \in Recs : (MtFailed(r) /\ w_pc'[r] # "mthandle") =>
            /\ main_tasks' = Append(main_tasks, [text |-> PostVocabulary(r),
                                                 rec |-> r, from_rec |-> w_from[r]])
            /\ ds' = ds
            /\ pending_source_text' = pending_source_text
            /\ pending_translated_text' = pending_translated_text]_vars
    /\ [][(main_tasks # <<>> /\ main_tasks' = Tail(main_tasks)) =>
            /\ pastes' = Append(pastes, Head(main_tasks))
            /\ ds'.type \in {"Idle", "Error"}
            /\ ds'.type = "Error" => ds'.message = "Failed to paste"]_vars

\* the translation timed out, the corrected text was pasted, the state is Idle
C10_Witness ==
    \E r \in Recs :
        /\ w_pc[r] = "done" /\ w_resp[r].type = "Timeout" /\ translation_enabled
        /\ pastes = << [text |-> <<"t", "h", "e">>, rec |-> r, from_rec |-> r] >>
        /\ ds = Idle

\* C11: the translated text of a TranslationPreview is the answer to the Translate job
\* of the recording the preview is for; an answer that arrives after the 30 s wait
\* gave up is never shown for a later recording
C11_TranslationOfSameRecording ==
    ds.type = "TranslationPreview" => ds.mt_from_rec = ds.rec

\* nothing of recording r was pasted or is queued for the paste
NoPasteFor(r) ==
    /\ \A i \in 1..Len(main_tasks) : main_tasks[i].rec # r
    /\ \A i \in 1..Len(pastes) : pastes[i].rec # r

\* the paste closure of a preview command runs: it pastes the text the command chose,
\* and the state is Idle, or Error if the paste failed
CommandPastes ==
    (main_pc = "cmd_paste" /\ main_pc' = "idle") =>
        /\ pastes' = Append(pastes, Head(main_tasks))
        /\ ds'.type \in {"Idle", "Error"}
        /\ ds'.type = "Error" => ds'.message = "Failed to paste"
        /\ ds'.type = "Idle" => ~overlay_visible'

\* C12: in CorrectionPreview, accept_corrections hands the corrected text to the paste
\* and leaves the history alone; undo_corrections hands the original text to the paste
\* and rewrites the text of the newest history entry to the original; the paste ends in
\* Idle (Error if the paste fails); nothing of the recording is pasted before
C12_AcceptAndUndoCorrections ==
    /\ [][(ds.type = "CorrectionPreview" /\ AcceptCorrections) =>
            /\ Head(main_tasks').text = ds.text
            /\ history' = history]_vars
    /\ [][(ds.type = "CorrectionPreview" /\ UndoCorrections) =>
            /\ Head(main_tasks').text = ds.original_text
            /\ history # <<>>
            /\ history'[1].text = ds.original_text
            /\ Tail(history') = Tail(history)
            /\ Len(history') = Len(history)]_vars
    /\ [][CommandPastes]_vars
    /\ []((ds.type = "CorrectionPreview" /\ main_pc # "cmd_paste") => NoPasteFor(ds.rec))

\* undo_corrections has returned the original text and rewritten the history entry of
\* the previewed recording; the paste is about to run
C12_Witness ==
    /\ main_pc = "cmd_paste" /\ ds.type = "CorrectionPreview"
    /\ Head(main_tasks).text = <<"t", "e", "h">>
    /\ ds.text = <<"t", "h", "e">>
    /\ history[1].text = <<"t", "e", "h">> /\ history[1].rec = ds.rec

\* C13: in TranslationPreview, accept_translation hands the translated text to the paste
\* and rewrites the text of the newest history entry to the translation;
\* reject_translation hands the source text to the paste and leaves the history
\* alone; the paste ends in Idle (Error if the paste fails)
C13_AcceptAndRejectTranslation ==
    /\ [][(ds.type = "TranslationPreview" /\ AcceptTranslation) =>
            /\ Head(main_tasks').text = ds.translated_text
            /\ history # <<>>
            /\ history'[1].text = ds.translated_text
            /\ Tail(history') = Tail(history)
            /\ Len(history') = Len(history)]_vars
    /\ [][(ds.type = "TranslationPreview" /\ RejectTranslation) =>
            /\ Head(main_tasks').text = ds.source_text
            /\ history' = history]_vars
    /\ [][(main_pc = "cmd_paste" /\ main_pc' = "idle") =>
            /\ pastes' = Append(pastes, Head(main_tasks))
            /\ ds'.type \in {"Idle", "Error"}
            /\ ds'.type = "Error" => ds'.message = "Failed to paste"]_vars

\* accept_translation has returned a translation that differs from the source text and
\* rewritten the history entry of the previewed recording; the paste is about to run
C13_Witness ==
    /\ main_pc = "cmd_paste" /\ ds.type = "TranslationPreview"
    /\ ds.translated_text # ds.source_text
    /\ Head(main_tasks).text = ds.translated_text
    /\ history[1].text = ds.translated_text /\ history[1].rec = ds.rec

\* the history entries of recording r
EntriesOf(r) == {i \in 1..Len(history) : history[i].rec = r}

\* the thread of recording r is past the history entry
PastHistory(r) ==
    \/ w_pc[r] \in {"translating", "mtsend", "mtwait", "mthandle", "preview", "paste"}
    \/ \E i \in 1..Len(mt_req) : mt_req[i].type = "Translate" /\ mt_req[i].job.rec = r
    \/ \E i \in 1..Len(main_tasks) : main_tasks[i].rec = r
    \/ \E i \in 1..Len(pastes) : pastes[i].rec = r
    \/ ds.type \in PreviewTypes /\ ds.rec = r

\* the history grows only by the entry of a thread that received a non-empty final
\* text, and the entry holds the text after the vocabulary
EntryInserted ==
    Len(history') > Len(history) =>
        \E r \in Recs :
            /\ w_pc[r] = "history" /\ w_text[r] # <<>>
            /\ Len(history') = Len(history) + 1
            /\ Tail(history') = history
            /\ history'[1].rec = r
            /\ history'[1].text = PostVocabulary(r)

\* the stop handler reads the duration of the Recording state (0 if the state is no
\* longer Recording) and hands it to the waiting thread, which writes it in the entry
DurationHanded ==
    /\ (main_pc = "hk_stop_dur" /\ main_pc' # main_pc) =>
            main_dur' = IF ds.type = "Recording" THEN ds.duration_ms ELSE 0
    /\ (main_pc = "hk_stop_send" /\ main_pc' # main_pc) =>
            w_dur'[main_audio.rec] = main_dur
    /\ \A r \in Recs : (w_pc[r] = "history" /\ w_pc'[r] # "history") =>
            /\ Len(history') = Len(history) + 1
            /\ history'[1].duration_ms = w_dur[r]

NewestFirst ==
    \A i \in 1..(Len(history) - 1) : history[i].id > history[i + 1].id

\* an insertion puts the new entry at index 0; a full history keeps its 49 newest
\* entries behind it and loses exactly the oldest
InsertionEvicts ==
    \A r \in Recs : (w_pc[r] = "history" /\ w_pc'[r] # "history") =>
        /\ history'[1].rec = r /\ history'[1].id = now'
        /\ IF Len(history) = MAX_HISTORY_ENTRIES
           THEN /\ Len(history') = MAX_HISTORY_ENTRIES
                /\ Tail(history') = SubSeq(history, 1, MAX_HISTORY_ENTRIES - 1)
           ELSE Tail(history') = history

\* C15: whatever is inserted, deleted or cleared, the history holds at most 50 entries,
\* newest first; an insertion into a full history puts the new entry at index 0 and
\* evicts exactly the oldest entry
C15_HistoryCap ==
    /\ [](Len(history) <= MAX_HISTORY_ENTRIES)
    /\ []NewestFirst
    /\ [][InsertionEvicts]_vars

\* a full history took the entry of a recording: the entry is at the front, the
\* history is still full and the oldest saved entry is gone
C15_Witness ==
    /\ Len(history) = MAX_HISTORY_ENTRIES
    /\ history[1].rec \in Recs
    /\ history[2].id = MAX_HISTORY_ENTRIES
    /\ history[MAX_HISTORY_ENTRIES].id = 2

\* everything but the position of the main thread
ExceptMainPc ==
    <<runVars, ds, settingsVars, pendingVars, captureVars, asrChan, asrWorker, mtChan,
      mtWorker, fileVars, uiVars, main_audio, main_dur, main_tasks, tkVars, plVars, wVars,
      ldVars, bookVars>>

\* the positions toggle_recording goes to after it has read the state
HotkeyBranches == {"hk_start", "hk_stop_flag", "hk_error", "hk_ignore"}

\* C16: a hotkey press that finds the state Processing, Translating, Downloading,
\* CorrectionPreview or TranslationPreview takes the ignoring branch, and the whole
\* handler leaves the state, the pending texts, the capture, the streaming flag, the
\* mailboxes and the emitted state (the event tap, the overlay) as they were
C16_HotkeyIgnored ==
    [][/\ (main_pc = "idle" /\ main_pc' \in HotkeyBranches /\ ds.type \in IgnoredTypes) =>
            main_pc' = "hk_ignore" /\ UNCHANGED ExceptMainPc
       /\ (main_pc = "hk_ignore" /\ main_pc' # main_pc) =>
            main_pc' = "idle" /\ UNCHANGED ExceptMainPc]_vars

\* the hotkey was pressed while the model was being downloaded
C16_Witness ==
    /\ main_pc = "hk_ignore"
    /\ ds = Downloading
    /\ ld_pc = "download"

\* what a dismissal must leave alone: the capture, the helper threads of every
\* recording, the mailboxes and channels of both workers
DismissalFrame ==
    <<captureVars, tkVars, plVars, wVars, asrChan, mtChan, rec_count, main_tasks>>

\* C17: from Error a hotkey press and a cancel take the dismissing branch, and the
\* branch sets Idle, emits it and hides the overlay without opening a capture,
\* starting a helper thread or sending a request to a worker
C17_ErrorDismissed ==
    [][/\ (main_pc = "idle" /\ main_pc' \in HotkeyBranches /\ ds.type = "Error") =>
            main_pc' = "hk_error" /\ UNCHANGED ExceptMainPc
       /\ (main_pc = "idle" /\ main_pc' \in {"cn_flag", "cn_error"} /\ ds.type = "Error") =>
            main_pc' = "cn_error" /\ UNCHANGED ExceptMainPc
       /\ (main_pc \in {"hk_error", "cn_error"} /\ main_pc' # main_pc) =>
            /\ ds' = Idle /\ ~overlay_visible' /\ ~preview_keys_enabled'
            /\ main_pc' = "idle"
            /\ UNCHANGED DismissalFrame]_vars

\* the hotkey dismissed an error that was on the overlay
C17_Witness ==
    /\ main_pc = "hk_error"
    /\ ds.type = "Error"
    /\ overlay_visible

\* C18: a CorrectionPreview state comes with pending_original and pending_corrected
\* equal to its original_text and text, a TranslationPreview state with pending_source
\* and pending_translated equal to its source_text and translated_text
C18_PreviewHoldsPending ==
    /\ ds.type = "CorrectionPreview" =>
            /\ pending_original_text = <<ds.original_text>>
            /\ pending_corrected_text = <<ds.text>>
    /\ ds.type = "TranslationPreview" =>
            /\ pending_source_text = <<ds.source_text>>
            /\ pending_translated_text = <<ds.translated_text>>

\* C19: a Recording state that shows a partial translation also shows a partial
\* text, and the translation is enabled in the settings
C19_PartialTranslationGuard ==
    (ds.type = "Recording" /\ ds.partial_translation # <<>>) =>
        ds.partial_text # <<>> /\ translation_enabled

\* the first half alone: a partial translation is never shown without a partial text
PartialTranslationHasText ==
    (ds.type = "Recording" /\ ds.partial_translation # <<>>) => ds.partial_text # <<>>

\* C20: the event tap intercepts Enter and Escape exactly while the dictation state
\* is CorrectionPreview or TranslationPreview
C20_PreviewKeysFollowState ==
    preview_keys_enabled <=> (ds.type \in PreviewTypes)

\* the Final requests the worker has not answered: those in its mailbox and the one it
\* took out of the mailbox while draining
OutstandingFinals ==
    Cardinality({i \in 1..Len(asr_req) : asr_req[i].type = "Transcribe"}) + Len(got_final)

\* C21: at most one Final request is sent to the ASR worker and not yet answered
C21_OneFinalOutstanding == OutstandingFinals <= 1

\* cancel_recording has cancelled recording r and has emitted its Idle state
CancelledAndIdleEmitted(r) ==
    r \in cancelled /\ main_pc \notin {"cn_flag", "cn_take", "cn_idle"}

\* the ticker or the partial loop of recording r emits the Recording state it copied
EmitsRecording(r) ==
    \/ tk_pc[r] = "emit" /\ tk_pc'[r] # "emit"
    \/ pl_pc[r] = "emit" /\ pl_pc'[r] # "emit"

\* C22: once cancel_recording has emitted Idle, no thread of the cancelled recording
\* emits a Recording state any more
C22_NoRecordingEventAfterCancel ==
    [][\A r \in Recs : EmitsRecording(r) => ~CancelledAndIdleEmitted(r)]_vars

\* cancel_recording has cleared the streaming flag and dropped the capture of r
CancelDropped(r) ==
    r \in cancelled /\ main_pc \notin {"cn_flag", "cn_take"}

\* C23: once cancel_recording has cleared the flag and dropped the capture, no request
\* with audio of the cancelled recording, Final or Partial, enters the ASR mailbox
C23_NoRequestAfterCancel ==
    [][\A r \in Recs :
          (CancelDropped(r) /\ Len(asr_req') > Len(asr_req)) =>
              asr_req'[Len(asr_req')].audio.rec # r]_vars

\* C24: a partial text that the partial loop received while the dictation state was
\* not Recording is dropped: the loop leaves the dictation state as it is and emits no
\* state event for it
C24_LatePartialIgnored ==
    [][\A r \in Recs :
          (/\ pl_pc[r] = "write" /\ pl_pc'[r] # "write"
           /\ pl_text[r] # <<>> /\ ~pl_text[r][1].in_recording) =>
              ds' = ds /\ pl_pc'[r] # "emit"]_vars


(* ------------------- apply_corrections called on its own ---------------- *)

\* the longest generated text, the longest generated vocabulary
MaxText == 4
MaxEntries == 2

\* the characters of the generated texts
TextChars == {"a", "A", "b", "B", " "}
RECURSIVE TextsUpTo(_)
TextsUpTo(n) ==
    IF n = 0 THEN { <<>> }
    ELSE TextsUpTo(n - 1)
         \cup { Append(t, c) : t \in { u \in TextsUpTo(n - 1) : Len(u) = n - 1 }, c \in TextChars }

\* the phrases and replacements of the generated entries
Phrases == { <<"a">>, <<"a", "b">> }
Replacements == { <<>>, <<"b">>, <<"a", "b">>, <<"a", " ", "b">> }
RECURSIVE VocabulariesUpTo(_)
VocabulariesUpTo(n) ==
    IF n = 0 THEN { <<>> }
    ELSE VocabulariesUpTo(n - 1)
         \cup { Append(v, [id |-> n, phrase |-> p, replacement |-> r, enabled |-> e]) :
                  v \in { u \in VocabulariesUpTo(n - 1) : Len(u) = n - 1 },
                  p \in Phrases, r \in Replacements, e \in BOOLEAN }

\* the texts and vocabularies of the tests in vocabulary.rs
Teh == <<"t", "e", "h">>
TehEntry == [id |-> 1, phrase |-> Teh, replacement |-> <<"t", "h", "e">>, enabled |-> TRUE]
AppEntry == [id |-> 1, phrase |-> <<"a", "p", "p">>, replacement |-> <<"a", "p", "p", "l", "i", "c", "a", "t", "i", "o", "n">>, enabled |-> TRUE]
RecieveEntry == [id |-> 2, phrase |-> <<"r", "e", "c", "i", "e", "v", "e">>,
                 replacement |-> <<"r", "e", "c", "e", "i", "v", "e">>, enabled |-> TRUE]
RecieveTeh == <<"I", " ", "r", "e", "c", "i", "e", "v", "e", " ", "t", "e", "h", " ", "p", "a", "c", "k", "a", "g", "e">>
TestCalls ==
    { [text |-> t, entries |-> <<TehEntry>>] :
        t \in { Teh, <<"T", "e", "h">>, <<"T", "E", "H">>, <<"t", "e", "h", " ", "t", "e", "h">> } }
    \cup { [text |-> t, entries |-> <<AppEntry>>] :
             t \in { <<"T", "h", "e", " ", "a", "p", "p", "l", "i", "c", "a", "t", "i", "o", "n">>, <<"a", " ", "g", "r", "e", "a", "t", " ", "a", "p", "p">> } }
    \cup { [text |-> Teh, entries |-> <<[TehEntry EXCEPT !.enabled = FALSE]>>],
           [text |-> <<"H", "e", "l", "l", "o", " ", "w", "o", "r", "l", "d">>, entries |-> <<>>],
           [text |-> RecieveTeh, entries |-> <<TehEntry, RecieveEntry>>] }

\* the calls followed: every generated text with every generated vocabulary, and the tests
CorrectionCalls(longest, most) ==
    { [text |-> t, entries |-> v] : t \in TextsUpTo(longest), v \in VocabulariesUpTo(most) }
    \cup TestCalls

programVars == <<ds, settingsVars, pendingVars, captureVars, asrChan, asrWorker, mtChan,
                 mtWorker, uiVars, mainVars, tkVars, plVars, wVars, ldVars, bookVars>>

VocabInit ==
    \E call \in CorrectionCalls(MaxText, MaxEntries) :
        /\ StartupWith(0, FALSE, <<>>, "send", call.entries)
        /\ corr_text = call.text /\ corr_result = <<>>
        /\ rs_input = [n |-> 0, from_rate |-> TargetRate, to_rate |-> TargetRate]
        /\ rs_output = <<>>

\* apply_corrections(&text, &vocabulary) returns
ApplyCorrections ==
    /\ corr_result = <<>>
    /\ corr_result' = << apply_corrections(corr_text, vocabulary) >>
    /\ UNCHANGED <<rec_limit, lockVars, corr_text, rs_input, rs_output, modelVars, programVars, fileVars>>

VocabSpec == VocabInit /\ [][ApplyCorrections]_vars


\* text[position .. position + len(replacement)] == replacement
ReplacementAt(text, c) ==
    /\ c.position + Len(c.replacement) <= Len(text)
    /\ SubSeq(text, c.position + 1, c.position + Len(c.replacement)) = c.replacement

\* C25: for every correction apply_corrections returns, the returned text holds the
\* replacement at the byte offset the correction records, whatever the text and the
\* vocabulary are
C25_ReplacementAtPosition ==
    \A i \in 1..Len(corr_result) :
        \A k \in 1..Len(corr_result[i].corrections) :
            ReplacementAt(corr_result[i].text, corr_result[i].corrections[k])


ToLower(s) == [i \in 1..Len(s) |-> ToLowerChar(s[i])]

\* the match has a letter and all its letters are uppercase
AllLettersUpper(matched) ==
    /\ \E i \in 1..Len(matched) : IsAlphabetic(matched[i])
    /\ \A i \in 1..Len(matched) : IsAlphabetic(matched[i]) => IsUpper(matched[i])

\* the stored replacement in the casing of the match
CasedLike(matched, stored) ==
    IF AllLettersUpper(matched) THEN ToUpper(stored)
    ELSE IF matched # <<>> /\ IsUpper(matched[1])
         THEN [i \in 1..Len(stored) |-> IF i = 1 THEN ToUpperChar(stored[i]) ELSE stored[i]]
         ELSE stored

\* the correction c was made by the enabled entry e
MadeBy(c, e) ==
    /\ e.enabled
    /\ ToLower(c.original) = ToLower(e.phrase)
    /\ c.replacement = CasedLike(c.original, e.replacement)

\* C26: every replacement made is the stored replacement of an enabled entry in the
\* casing of the matched substring: fully upper-cased if the match has a letter and all
\* its letters are uppercase, else with its first character upper-cased if the match
\* starts with an uppercase letter, else as stored; TEH, Teh and teh become THE, The, the
C26_CasingFollowsMatch ==
    \A i \in 1..Len(corr_result) :
        /\ \A k \in 1..Len(corr_result[i].corrections) :
               \E n \in 1..Len(vocabulary) :
                   MadeBy(corr_result[i].corrections[k], vocabulary[n])
        /\ (vocabulary = <<TehEntry>> /\ ToLower(corr_text) = Teh)
               => corr_result[i].text = CasedLike(corr_text, TehEntry.replacement)

C26_Witness ==
    /\ vocabulary = <<TehEntry>>
    /\ corr_text = <<"T", "E", "H">>
    /\ corr_result = << [text |-> <<"T", "H", "E">>,
                         corrections |-> << [original |-> <<"T", "E", "H">>,
                                             replacement |-> <<"T", "H", "E">>,
                                             position |-> 0] >>] >>


\* the phrase stands in the text at i as a whole word, letter case aside
WholeWordAt(text, phrase, i) ==
    /\ i + Len(phrase) - 1 <= Len(text)
    /\ ToLower(SubSeq(text, i, i + Len(phrase) - 1)) = ToLower(phrase)
    /\ i > 1 => ~IsWordChar(text[i - 1])
    /\ i + Len(phrase) <= Len(text) => ~IsWordChar(text[i + Len(phrase)])
WholeWordStarts(text, phrase) == { i \in 1..Len(text) : WholeWordAt(text, phrase, i) }

EnabledEntries == SelectSeq(vocabulary, LAMBDA e : e.enabled)

\* the replacement begins with the phrase
PhraseIsPrefix(e) ==
    /\ Len(e.phrase) <= Len(e.replacement)
    /\ SubSeq(e.replacement, 1, Len(e.phrase)) = e.phrase
\* ... and goes on with a word character, or ends there
PhraseIsWordPrefix(e) ==
    /\ PhraseIsPrefix(e)
    /\ Len(e.phrase) < Len(e.replacement) => IsWordChar(e.replacement[Len(e.phrase) + 1])

\* only whole-word occurrences are replaced
OnlyWholeWords(res) ==
    /\ (\A n \in 1..Len(EnabledEntries) :
            WholeWordStarts(corr_text, EnabledEntries[n].phrase) = {})
           => res.text = corr_text /\ res.corrections = <<>>
    /\ Len(EnabledEntries) = 1
           => Len(res.corrections)
                  = Cardinality(WholeWordStarts(corr_text, EnabledEntries[1].phrase))
    /\ (vocabulary = <<AppEntry>> /\ WholeWordStarts(corr_text, AppEntry.phrase) = {})
           => res.text = corr_text

RECURSIVE LengthGain(_)
LengthGain(cs) ==
    IF cs = <<>> THEN 0
    ELSE Len(Head(cs).replacement) - Len(Head(cs).original) + LengthGain(Tail(cs))

\* C28: one correction record per replacement made by an enabled entry, its original
\* being the matched substring; disabled entries have no effect, and with an empty
\* vocabulary or only disabled entries the text comes back unchanged with no corrections
C28_OneRecordPerReplacement ==
    \A i \in 1..Len(corr_result) :
        LET res == corr_result[i]
        IN /\ \A k \in 1..Len(res.corrections) :
                  \E n \in 1..Len(EnabledEntries) :
                      ToLower(res.corrections[k].original) = ToLower(EnabledEntries[n].phrase)
           /\ Len(res.text) = Len(corr_text) + LengthGain(res.corrections)
           /\ Len(EnabledEntries) = 1 =>
                  /\ \A k \in 1..Len(res.corrections) :
                         /\ res.corrections[k].position + 1
                                \in WholeWordStarts(corr_text, EnabledEntries[1].phrase)
                         /\ res.corrections[k].original
                                = SubSeq(corr_text, res.corrections[k].position + 1,
                                         res.corrections[k].position
                                             + Len(EnabledEntries[1].phrase))
                  /\ \A k, l \in 1..Len(res.corrections) :
                         k # l => res.corrections[k].position # res.corrections[l].position
           /\ res = apply_corrections(corr_text, EnabledEntries)
           /\ EnabledEntries = <<>> => res = [text |-> corr_text, corrections |-> <<>>]
           /\ (corr_text = RecieveTeh /\ vocabulary = <<TehEntry, RecieveEntry>>)
                  => res.text = <<"I", " ", "r", "e", "c", "e", "i", "v", "e", " ", "t", "h", "e", " ", "p", "a", "c", "k", "a", "g", "e">> /\ Len(res.corrections) = 2

C28_Witness ==
    /\ vocabulary = << [id |-> 1, phrase |-> <<"a">>, replacement |-> <<"b">>,
                        enabled |-> FALSE],
                       [id |-> 2, phrase |-> <<"a", "b">>, replacement |-> <<"b">>,
                        enabled |-> TRUE] >>
    /\ corr_text = <<"a", " ", "a", "b">>
    /\ corr_result = << [text |-> <<"a", " ", "b">>,
                         corrections |-> << [original |-> <<"a", "b">>,
                                             replacement |-> <<"b">>,
                                             position |-> 2] >>] >>


(* ------------------------ the vocabulary commands ---------------------- *)

\* the most entries added, the last millisecond of the run
MaxVocab == 3
MaxNow == 2

\* vocabulary::add_entry
push_entry(entries, entry) == Append(entries, entry)

\* vocabulary::update_entry: the first entry of that id
update_entry(entries, id, phrase, replacement, enabled) ==
    IF \E i \in 1..Len(entries) : entries[i].id = id
    THEN LET first == CHOOSE i \in 1..Len(entries) :
                          /\ entries[i].id = id
                          /\ \A j \in 1..(i - 1) : entries[j].id # id
         IN [entries EXCEPT ![first] = [id |-> id, phrase |-> phrase,
                                        replacement |-> replacement, enabled |-> enabled]]
    ELSE entries

\* vocabulary::delete_entry: retain the entries of another id
delete_vocab(entries, id) == SelectSeq(entries, LAMBDA e : e.id # id)

\* the wall clock reaches the next millisecond
ClockTick ==
    /\ now < MaxNow
    /\ now' = now + 1
    /\ UNCHANGED <<runVars, programVars, history, vocabulary>>

\* add_vocab_entry: the id is the wall clock in ms
AddVocabEntry ==
    /\ Len(vocabulary) < MaxVocab
    /\ \E phrase \in Phrases, replacement \in {<<"b">>} :
           vocabulary' = push_entry(vocabulary,
                             [id |-> now, phrase |-> phrase,
                              replacement |-> replacement, enabled |-> TRUE])
    /\ UNCHANGED <<runVars, programVars, history, now>>

\* update_vocab_entry
UpdateVocabEntry ==
    /\ \E id \in 0..MaxNow, phrase \in Phrases, enabled \in BOOLEAN :
           vocabulary' = update_entry(vocabulary, id, phrase, <<"b">>, enabled)
    /\ UNCHANGED <<runVars, programVars, history, now>>

\* delete_vocab_entry
DeleteVocabEntry ==
    /\ \E id \in 0..MaxNow : vocabulary' = delete_vocab(vocabulary, id)
    /\ UNCHANGED <<runVars, programVars, history, now>>

\* the first run: no vocabulary.json yet
VocabFileInit == StartupWith(0, FALSE, <<>>, "send", <<>>) /\ NoCall
VocabFileNext == ClockTick \/ AddVocabEntry \/ UpdateVocabEntry \/ DeleteVocabEntry
VocabFileSpec == VocabFileInit /\ [][VocabFileNext]_vars

\* C29: whatever add_vocab_entry, update_vocab_entry and delete_vocab_entry were called,
\* no two entries of the vocabulary have the same id
C29_UniqueIds ==
    \A i, j \in 1..Len(vocabulary) : i # j => vocabulary[i].id # vocabulary[j].id


(* ----------------------- resample called on its own -------------------- *)

\* A natural number as its binary digits, the most significant first, without a
\* leading zero; <<>> is 0.
RECURSIVE Bits(_)
Bits(n) == IF n = 0 THEN <<>> ELSE Append(Bits(n \div 2), n % 2)
RECURSIVE Value(_)
Value(b) == IF b = <<>> THEN 0 ELSE 2 * Value(SubSeq(b, 1, Len(b) - 1)) + b[Len(b)]
Strip(b) ==
    IF \A i \in 1..Len(b) : b[i] = 0 THEN <<>>
    ELSE SubSeq(b, CHOOSE i \in 1..Len(b) : b[i] = 1 /\ \A j \in 1..(i - 1) : b[j] = 0,
                Len(b))
Pad(b, w) == [i \in 1..w |-> IF i <= w - Len(b) THEN 0 ELSE b[i - (w - Len(b))]]

Less(a, b) ==
    \/ Len(a) < Len(b)
    \/ /\ Len(a) = Len(b)
       /\ \E i \in 1..Len(a) : a[i] < b[i] /\ \A j \in 1..(i - 1) : a[j] = b[j]

\* a + b for a, b of w digits: the carry into digit k comes from the nearest lower
\* digit where both have 1, if all digits between have exactly one 1
AddPadded(a, b, w) ==
    LET carry(k) == IF \E i \in (k + 1)..w :
                           /\ a[i] = 1 /\ b[i] = 1
                           /\ \A j \in (k + 1)..(i - 1) : a[j] + b[j] = 1
                    THEN 1 ELSE 0
    IN [k \in 1..(w + 1) |->
           IF k = 1 THEN carry(0) ELSE (a[k - 1] + b[k - 1] + carry(k - 1)) % 2]
Add(a, b) ==
    LET w == IF Len(a) > Len(b) THEN Len(a) ELSE Len(b)
    IN Strip(AddPadded(Pad(a, w), Pad(b, w), w))

\* a - b for a >= b of w digits: digit k lends one if the lower digits of a are less
\* than those of b
SubPadded(a, b, w) ==
    LET borrow(k) == IF \E i \in (k + 1)..w :
                            /\ a[i] < b[i]
                            /\ \A j \in (k + 1)..(i - 1) : a[j] = b[j]
                     THEN 1 ELSE 0
    IN [k \in 1..w |-> (a[k] - b[k] - borrow(k) + 2) % 2]
Sub(a, b) == Strip(SubPadded(a, Pad(b, Len(a)), Len(a)))

RECURSIVE Mul(_, _)
Mul(a, b) ==
    IF a = <<>> THEN <<>>
    ELSE LET rest == Mul(SubSeq(a, 1, Len(a) - 1), b)
             doubled == IF rest = <<>> THEN <<>> ELSE Append(rest, 0)
         IN IF a[Len(a)] = 1 THEN Add(doubled, b) ELSE doubled

\* long division of num, followed by zeros, by d: a step brings down digit
\* Len(acc.q) + 1; acc.q is the quotient so far, acc.r the remainder
DivStep(acc, num, d) ==
    LET at == Len(acc.q) + 1
        down == Strip(Append(acc.r, IF at <= Len(num) THEN num[at] ELSE 0))
    IN IF Less(down, d) THEN [q |-> Append(acc.q, 0), r |-> down]
       ELSE [q |-> Append(acc.q, 1), r |-> Sub(down, d)]
\* ... until the quotient has `digits` digits, eight steps at a time
RECURSIVE LongDiv(_, _, _, _)
LongDiv(acc, num, digits, d) ==
    IF Len(acc.q) >= digits THEN acc
    ELSE LongDiv(DivStep(DivStep(DivStep(DivStep(DivStep(DivStep(DivStep(DivStep(
                     acc, num, d), num, d), num, d), num, d), num, d), num, d), num, d),
                     num, d),
                 num, digits, d)

\* f64: 53 significant binary digits
Mantissa == 53

\* A finite non-negative f64 is [m, e] with the value m * 2^e, m of at most 53 digits.
\* The result of an operation is the exact result, digits s times 2^e with something
\* non-zero below them if sticky, rounded to the nearest f64, a tie to the even one.
RoundF64(s, sticky, e) ==
    IF Len(s) <= Mantissa THEN [m |-> s, e |-> e]
    ELSE LET m0 == SubSeq(s, 1, Mantissa)
             half == s[Mantissa + 1] = 1
             rest == sticky \/ \E i \in (Mantissa + 2)..Len(s) : s[i] = 1
             m1 == IF half /\ (rest \/ m0[Mantissa] = 1) THEN Add(m0, <<1>>) ELSE m0
             e1 == e + (Len(s) - Mantissa)
         IN IF Len(m1) > Mantissa THEN [m |-> SubSeq(m1, 1, Mantissa), e |-> e1 + 1]
            ELSE [m |-> m1, e |-> e1]

\* n as f64, for n below 2^53
F64(n) == [m |-> Bits(n), e |-> 0]

\* x / y for x, y > 0: the quotient of the digits to at least two digits more than
\* the 53 kept
FDiv(x, y) ==
    LET extra == Mantissa + 2 + Len(y.m)
        d == LongDiv([q |-> <<>>, r |-> <<>>], x.m, Len(x.m) + extra, y.m)
    IN RoundF64(Strip(d.q), d.r # <<>>, x.e - y.e - (Len(d.q) - Len(x.m)))

\* x * y
FMul(x, y) == RoundF64(Mul(x.m, y.m), FALSE, x.e + y.e)

\* x as usize: the fraction is cut off
RECURSIVE Pow2(_)
Pow2(k) == IF k = 0 THEN 1 ELSE 2 * Pow2(k - 1)
AsUsize(x) ==
    IF x.e >= 0 THEN Value(x.m) * Pow2(x.e)
    ELSE Value(SubSeq(x.m, 1, Len(x.m) + x.e))

\* resample(input, from_rate, to_rate) for an input of n samples: whether the input
\* was returned as it is, the length of the output, the indices of the input read
resample(n, from_rate, to_rate) ==
    IF from_rate = to_rate \/ n = 0
    THEN [unchanged |-> TRUE, len |-> n, reads |-> {}]
    ELSE LET ratio == FDiv(F64(from_rate), F64(to_rate))
             output_len == AsUsize(FDiv(F64(n), ratio))
             floors == { AsUsize(FMul(F64(i), ratio)) : i \in 0..(output_len - 1) }
         IN [unchanged |-> FALSE, len |-> output_len,
             reads |-> floors \cup { j + 1 : j \in { k \in floors : k + 1 < n } }]

\* the largest length and rate of the generated calls
MaxSamples == 9
MaxRate == 9

\* the calls followed: every small length with every pair of small rates, some lengths
\* with the rates of audio devices and the target rate, and 10 ms at 48 kHz to 44.1 kHz
DeviceRates == {TargetRate, 44100, 3 * TargetRate}
ResampleCalls(longest, fastest) ==
    { [n |-> n, from_rate |-> f, to_rate |-> t] :
        n \in 0..longest, f \in 1..fastest, t \in 1..fastest }
    \cup { [n |-> n, from_rate |-> f, to_rate |-> TargetRate] :
             n \in {0, 1, 3, 441, 480}, f \in DeviceRates }
    \cup { [n |-> 480, from_rate |-> 3 * TargetRate, to_rate |-> 44100] }

ResampleInit ==
    \E call \in ResampleCalls(MaxSamples, MaxRate) :
        /\ StartupWith(0, FALSE, <<>>, "send", SavedVocabulary)
        /\ corr_text = <<>> /\ corr_result = <<>>
        /\ rs_input = call /\ rs_output = <<>>

\* resample(&input, from_rate, to_rate) returns
Resample ==
    /\ rs_output = <<>>
    /\ rs_output' = << resample(rs_input.n, rs_input.from_rate, rs_input.to_rate) >>
    /\ UNCHANGED <<rec_limit, lockVars, corr_text, corr_result, rs_input, modelVars, programVars, fileVars>>

ResampleSpec == ResampleInit /\ [][Resample]_vars

\* C30: resample returns its input unchanged if the input is empty or the rates are
\* equal; otherwise the output has floor(n * to_rate / from_rate) samples and every
\* index read from the input is within 0..n-1
C30_ResampleContract ==
    \A i \in 1..Len(rs_output) :
        IF rs_input.n = 0 \/ rs_input.from_rate = rs_input.to_rate
        THEN rs_output[i].unchanged /\ rs_output[i].len = rs_input.n
        ELSE /\ rs_output[i].len = (rs_input.n * rs_input.to_rate) \div rs_input.from_rate
             /\ rs_output[i].reads \subseteq 0..(rs_input.n - 1)


(* ----------------------------- set_language ---------------------------- *)

\* the requests waiting in the ASR mailbox when a settings command starts
MaxAsrQueue == 1

\* model_manager.rs AVAILABLE_MODELS: the names, and those with english_only
ModelNames == {"tiny.en", "tiny", "base.en", "base", "small.en", "small",
               "medium.en", "medium", "base.en-q8_0"}
EnglishOnlyNames == {"tiny.en", "base.en", "small.en", "medium.en", "base.en-q8_0"}

\* variant: every model is its own multilingual equivalent
multilingual_equivalent_keeps(model_name) == <<model_name>>

\* model_manager::multilingual_equivalent
multilingual_equivalent(model_name) ==
    CASE model_name = "tiny.en" -> <<"tiny">>
      [] model_name \in {"base.en", "base.en-q8_0"} -> <<"base">>
      [] model_name = "small.en" -> <<"small">>
      [] model_name = "medium.en" -> <<"medium">>
      [] OTHER -> <<>>

\* model_manager::english_equivalent
english_equivalent(model_name) ==
    CASE model_name = "tiny" -> <<"tiny.en">>
      [] model_name = "base" -> <<"base.en">>
      [] model_name = "small" -> <<"small.en">>
      [] model_name = "medium" -> <<"medium.en">>
      [] OTHER -> <<>>

\* model_manager::is_english_only
is_english_only(model_name) == model_name \in ModelNames /\ model_name \in EnglishOnlyNames

\* Option::unwrap_or
unwrap_or(option, default) == IF option = <<>> THEN default ELSE option[1]

\* the languages the settings window offers in the model
Languages == {"en", "fr", "auto"}

\* lib.rs 1545-1571: the first lock: the selected model, whether it has to change, to what
\* the settings commands are followed one at a time: none starts while another or a
\* setup_model is under way
SettingsIdle == sl_call.pc = "idle" /\ ld_pc = "done" /\ Len(asr_req) < MaxAsrQueue

programVarsButLoader ==
    <<ds, settingsVars, pendingVars, captureVars, asrChan, asrWorker, mtChan,
      mtWorker, uiVars, mainVars, tkVars, plVars, wVars, bookVars>>

SetLanguageRead ==
    /\ SettingsIdle
    /\ \E lang \in Languages :
          LET current == selected_model
              is_en == is_english_only(current)
              needs_multilingual == lang # "en"
              switch == (needs_multilingual /\ is_en) \/ (~needs_multilingual /\ ~is_en)
              new_model == IF switch
                           THEN IF lang # "en"
                                THEN unwrap_or(multilingual_equivalent(current), "base")
                                ELSE unwrap_or(english_equivalent(current), "base.en")
                           ELSE current
          IN sl_call' = [pc |-> "write", language |-> lang, current_model |-> current,
                         needs_model_switch |-> switch, new_model |-> new_model,
                         updated_state |-> FALSE]
    /\ UNCHANGED <<rec_limit, lockVars, callVars, selected_model, programVars, fileVars>>

\* lib.rs 1573-1596: the second lock: the language, and the source language of a
\* Recording state
SetLanguageWrite ==
    /\ sl_call.pc = "write"
    /\ language' = sl_call.language
    /\ IF ds.type = "Recording"
       THEN ds' = [ds EXCEPT !.source_lang = source_language_for_translation(sl_call.language)]
       ELSE UNCHANGED ds
    /\ sl_call' = [sl_call EXCEPT !.pc = "send", !.updated_state = (ds.type = "Recording")]
    /\ UNCHANGED <<rec_limit, lockVars, callVars, selected_model, vocab_enabled, translation_enabled,
                   translation_target_lang, pendingVars, captureVars, asrChan, asrWorker,
                   mtChan, mtWorker, fileVars, uiVars, mainVars, tkVars, plVars, wVars,
                   ldVars, bookVars>>

\* lib.rs 1598-1617: the configuration is saved (or the call fails), SetLanguage goes to
\* the ASR worker, the languages to the MT worker, the updated Recording state is emitted
SetLanguageSend ==
    /\ sl_call.pc = "send"
    /\ \/ /\ sl_call' = [sl_call EXCEPT !.pc = "err"]
          /\ UNCHANGED <<asr_req, mt_req, preview_keys_enabled>>
       \/ /\ asr_req' = Append(asr_req, [type |-> "SetLanguage", audio |-> NoAudio])
          /\ sync_translation_languages
          /\ IF sl_call.updated_state THEN emit_state(ds)
             ELSE UNCHANGED preview_keys_enabled
          /\ sl_call' = [sl_call EXCEPT
                            !.pc = IF sl_call.needs_model_switch THEN "select" ELSE "ok"]
    /\ UNCHANGED <<rec_limit, lockVars, callVars, selected_model, ds, settingsVars, pendingVars,
                   captureVars, asr_resp, asr_partial, asrWorker, mt_resp, mt_partial,
                   mtWorker, fileVars, overlay_visible, mainVars, tkVars, plVars, wVars,
                   ldVars, bookVars>>

\* lib.rs 1619-1622, 1146-1174: select_model: the name is valid, selected_model is set,
\* the configuration is saved (or the call fails), setup_model starts
SetLanguageSelect ==
    /\ sl_call.pc = "select"
    /\ IF sl_call.new_model \notin ModelNames
       THEN /\ sl_call' = [sl_call EXCEPT !.pc = "err"]
            /\ UNCHANGED <<selected_model, ld_pc>>
       ELSE /\ selected_model' = sl_call.new_model
            /\ \/ /\ sl_call' = [sl_call EXCEPT !.pc = "err"]
                  /\ UNCHANGED ld_pc
               \/ /\ ld_pc = "done"
                  /\ ld_pc' = "setup"
                  /\ sl_call' = [sl_call EXCEPT !.pc = "await"]
    /\ UNCHANGED <<rec_limit, lockVars, callVars, programVarsButLoader, ld_resp, tl_pc, fileVars>>

\* lib.rs 1170-1179: setup_model has returned, model-changed is emitted
SetLanguageAwait ==
    /\ sl_call.pc = "await"
    /\ ld_pc = "done"
    /\ sl_call' = [sl_call EXCEPT !.pc = "ok"]
    /\ UNCHANGED <<rec_limit, lockVars, callVars, selected_model, programVars, fileVars>>

\* set_language has returned Ok or Err
SetLanguageReturn ==
    /\ sl_call.pc \in {"ok", "err"}
    /\ sl_call' = NoSetLanguage
    /\ UNCHANGED <<rec_limit, lockVars, callVars, selected_model, programVars, fileVars>>

\* lib.rs 1146-1181: select_model from the settings window: selected_model is set, the
\* configuration is saved (or the call fails), setup_model runs
SelectModel ==
    /\ SettingsIdle
    /\ \E model_name \in ModelNames :
          /\ selected_model' = model_name
          /\ \/ UNCHANGED ld_pc
             \/ ld_pc' = "setup"
    /\ UNCHANGED <<rec_limit, lockVars, callVars, sl_call, programVarsButLoader, ld_resp, tl_pc, fileVars>>

\* the ASR worker takes SetLanguage from its mailbox and goes on
AsrSetLanguage ==
    /\ asr_pc = "recv" /\ asr_req # <<>> /\ Head(asr_req).type = "SetLanguage"
    /\ asr_req' = Tail(asr_req)
    /\ UNCHANGED <<runVars, ds, settingsVars, pendingVars, captureVars, asr_resp, asr_partial,
                   asrWorker, mtChan, mtWorker, fileVars, uiVars, mainVars, tkVars, plVars,
                   wVars, ldVars, bookVars>>

\* the settings window is used while no recording is made
ModelInit == Startup(0, FALSE)
ModelNext ==
    \/ SetLanguageRead \/ SetLanguageWrite \/ SetLanguageSend \/ SetLanguageSelect
    \/ SetLanguageAwait \/ SetLanguageReturn \/ SelectModel
    \/ LoaderSetup \/ LoaderProgress \/ LoaderDownloaded \/ LoaderDownloadFailed
    \/ LoaderSend \/ LoaderWait \/ LoaderLoaded \/ LoaderFailed
    \/ AsrRecvLoad \/ AsrSetLanguage \/ MtSetLanguages
ModelSpec == ModelInit /\ [][ModelNext]_vars

\* the English-only models and their multilingual equivalents
VariantPairs == { <<"tiny.en", "tiny">>, <<"base.en", "base">>, <<"small.en", "small">>,
                  <<"medium.en", "medium">>, <<"base.en-q8_0", "base">> }

\* C31: when set_language(L) has returned Ok from an available model, the selected
\* model is English-only exactly if L is "en": an English-only model was replaced by its
\* multilingual equivalent for L other than "en", a multilingual one by its English-only
\* equivalent for "en", and the model is the one before otherwise
C31_ModelFollowsLanguage ==
    sl_call.pc = "ok" =>
        LET before == sl_call.current_model
            lang == sl_call.language
        IN /\ selected_model \in ModelNames
           /\ selected_model \in EnglishOnlyNames <=> lang = "en"
           /\ (before \in EnglishOnlyNames /\ lang # "en")
                  => <<before, selected_model>> \in VariantPairs
           /\ (before \notin EnglishOnlyNames /\ lang = "en")
                  => <<selected_model, before>> \in VariantPairs
           /\ (before \in EnglishOnlyNames <=> lang = "en") => selected_model = before

C31_Witness ==
    /\ sl_call.pc = "ok"
    /\ sl_call.current_model = "base.en-q8_0" /\ sl_call.language = "fr"
    /\ selected_model = "base" /\ language = "fr"

(* ------------------- the ASR worker and its mailbox ------------------- *)

\* the worker thread alone: requests arrive in its mailbox in any order
MaxMail == 3

\* lib.rs 409-415: a TranscribePartial arrives; len numbers the requests
MailPartial ==
    /\ partials_sent < MaxMail
    /\ \E r \in Recs :
          asr_req' = Append(asr_req, [type |-> "TranscribePartial",
                                      audio |-> [rec |-> r, len |-> partials_sent + 1]])
    /\ partials_sent' = partials_sent + 1
    /\ UNCHANGED <<runVars, ds, settingsVars, pendingVars, captureVars, asr_resp, asr_partial,
                   asrWorker, mtChan, mtWorker, fileVars, uiVars, mainVars, tkVars, plVars,
                   wVars, ldVars, rec_count, pastes, cancelled, final_done, late_partial>>

\* lib.rs 610-632: a Transcribe arrives, one for a recording
MailFinal ==
    /\ \E r \in Recs \ final_done :
          /\ \A i \in 1..Len(asr_req) :
                 ~(asr_req[i].type = "Transcribe" /\ asr_req[i].audio.rec = r)
          /\ got_final # << [rec |-> r, len |-> 1] >>
          /\ asr_req' = Append(asr_req, [type |-> "Transcribe",
                                         audio |-> [rec |-> r, len |-> 1]])
    /\ UNCHANGED <<runVars, ds, settingsVars, pendingVars, captureVars, asr_resp, asr_partial,
                   asrWorker, mtChan, mtWorker, fileVars, uiVars, mainVars, tkVars, plVars,
                   wVars, ldVars, bookVars>>

\* lib.rs 1701-1706: a LoadModel arrives
MailLoad ==
    /\ Len(asr_resp) + Len(asr_req) < MaxMail
    /\ asr_req' = Append(asr_req, [type |-> "LoadModel", audio |-> NoAudio])
    /\ UNCHANGED <<runVars, ds, settingsVars, pendingVars, captureVars, asr_resp, asr_partial,
                   asrWorker, mtChan, mtWorker, fileVars, uiVars, mainVars, tkVars, plVars,
                   wVars, ldVars, bookVars>>

WorkerInit == StartupAt(0, FALSE, <<>>, "done")
WorkerNext ==
    \/ MailPartial \/ MailFinal \/ MailLoad
    \/ AsrRecvLoad \/ AsrRecvFinal \/ AsrRecvPartial
    \/ AsrDrain \/ AsrDrainEnd \/ AsrRunFinal \/ AsrRunPartial
WorkerSpec == WorkerInit /\ [][WorkerNext]_vars

\* the TranscribePartial requests the worker has taken out of its mailbox
PartialsReceived ==
    partials_sent - Cardinality({ i \in 1..Len(asr_req) : asr_req[i].type = "TranscribePartial" })

\* C32: a batch of drained Partials without a Final is run once, at the end of the
\* drain, on the samples of the newest Partial received, and sends at most one string on
\* the partial channel; the strings sent never outnumber the Partials received
C32_OneRunPerBatch ==
    /\ [](Len(asr_partial) <= PartialsReceived)
    /\ []((asr_pc \in {"drain", "run"}) => latest_audio.len = PartialsReceived)
    /\ [][asr_partial' # asr_partial =>
             /\ asr_pc = "run" /\ got_final = <<>> /\ asr_pc' = "recv"
             /\ latest_audio.len = PartialsReceived
             /\ \E text \in { Trim(raw) : raw \in AsrRawOutputs } :
                    asr_partial' = Append(asr_partial, [text |-> text,
                                                        rec |-> latest_audio.rec])]_vars

\* two Partials were received, the second one's recording got the only string
C32_Witness ==
    /\ asr_pc = "recv" /\ asr_req = <<>>
    /\ partials_sent = 2 /\ Len(asr_resp) = 1
    /\ Len(asr_partial) = 1 /\ asr_partial[1].rec = 2

(* ------------------ the helper threads of a recording ------------------ *)

\* recordings started, stopped and cancelled one after the other before the first
\* samples arrive, with the level ticker and the partial loop that each of them spawns
HelperInit == StartupAt(MaxRec, FALSE, <<>>, "done")
HelperNext ==
    \/ HotkeyRead \/ HotkeyStartCapture \/ HotkeyRecordingState \/ HotkeySpawn
    \/ HotkeyStopFlag \/ HotkeyStopTake \/ HotkeyStopEmpty
    \/ CancelRead \/ CancelFlag \/ CancelTake \/ CancelIdle
    \/ TickerNext
    \/ \E r \in Recs : PartialCheck(r) \/ PartialSnapshot(r)
HelperSpec == HelperInit /\ [][HelperNext]_vars

\* the thread has been spawned and has not left its loop
TickerAlive(r) == tk_pc[r] \notin {"off", "done"}
PartialLoopAlive(r) == pl_pc[r] \notin {"off", "done"}

\* C33: at any time at most one partial loop and at most one level ticker are alive
C33_OneHelperOfEachKind ==
    /\ Cardinality({ r \in Recs : TickerAlive(r) }) <= 1
    /\ Cardinality({ r \in Recs : PartialLoopAlive(r) }) <= 1

\* what the scheduler guarantees to the helper threads: a handler that has started
\* returns, and a spawned thread takes its next step; key presses are not guaranteed
HelperFairness ==
    /\ WF_vars(HotkeyStartCapture \/ HotkeyRecordingState \/ HotkeySpawn \/ HotkeyStopFlag
               \/ HotkeyStopTake \/ HotkeyStopEmpty \/ CancelFlag \/ CancelTake \/ CancelIdle)
    /\ \A r \in Recs :
          /\ WF_vars(TickerCheck(r) \/ TickerLevels(r) \/ TickerUpdate(r) \/ TickerEmit(r))
          /\ WF_vars(PartialCheck(r) \/ PartialSnapshot(r))

FairHelperSpec == HelperSpec /\ HelperFairness

\* recording r is the one started last, its helpers were spawned, and Cancel or the
\* stopping Hotkey has cleared the streaming flag
FlagClearedFor(r) == rec_count = r /\ tk_pc[r] # "off" /\ ~streaming_active

HelpersTerminated(r) == tk_pc[r] = "done" /\ pl_pc[r] = "done"

\* C34: once Cancel or a stopping Hotkey has cleared the streaming flag, the ticker and
\* the partial loop of that recording eventually terminate, whatever the user does next
C34_HelpersTerminate ==
    \A r \in Recs : FlagClearedFor(r) ~> HelpersTerminated(r)

(* --------------------------- the mutexes ------------------------------- *)

\* a scope that locks m and unlocks it at its end
Scope(m) == << <<"lock", m>>, <<"unlock", m>> >>

\* a scope that locks ActiveCapture and reads or takes the buffer of the capture inside
CaptureScope == << <<"lock", "ActiveCapture">>, <<"lock", "AudioBuffer">>,
                   <<"unlock", "AudioBuffer">>, <<"unlock", "ActiveCapture">> >>

\* one pass of the ticker takes AppState while the buffer is still locked
TickerLocksNested ==
    { Scope("ActiveCapture"),
      << <<"lock", "ActiveCapture">>, <<"lock", "AudioBuffer">>, <<"lock", "AppState">>,
         <<"unlock", "AppState">>, <<"unlock", "AudioBuffer">>,
         <<"unlock", "ActiveCapture">> >> }

\* lib.rs 336-378: one pass of the level ticker: no capture (break), or the levels
\* under both capture locks and then the duration under the state lock
TickerLocks ==
    { Scope("ActiveCapture"),
      CaptureScope \o Scope("AppState") }

\* lib.rs 394-523: one pass of the partial loop: no capture (break); a snapshot, which
\* may or may not lock the buffer, with nothing to write; a snapshot, the read of the
\* languages (443-460) and the write of the partial (497-523)
PartialLoopLocks ==
    LET snapshot == { Scope("ActiveCapture"), CaptureScope }
    IN snapshot
       \cup { snap \o Scope("AppState") \o Scope("AppState") : snap \in snapshot }

\* lib.rs 267-271, 276-322, 540-632; capture.rs 40-43, 98-101: one call of
\* toggle_recording
ToggleRecordingLocks ==
    LET read == Scope("AppState")
    IN { read,
         read \o Scope("AppState"),
         read \o Scope("AudioBuffer") \o Scope("AppState"),
         read \o Scope("AudioBuffer") \o Scope("ActiveCapture") \o Scope("AppState"),
         read \o CaptureScope \o Scope("AppState"),
         read \o CaptureScope \o Scope("AppState") \o Scope("AppState") }

\* lib.rs 1627-1672; capture.rs 98-101: one call of cancel_recording
CancelRecordingLocks ==
    LET read == Scope("AppState")
    IN { read,
         read \o Scope("AppState"),
         read \o CaptureScope \o Scope("AppState") }

\* capture.rs 49-57, 68-76: the input callback appends the samples
CallbackLocks == { Scope("AudioBuffer") }

LockPasses(t) ==
    CASE t = "ticker" -> TickerLocks
      [] t = "partial_loop" -> PartialLoopLocks
      [] t = "toggle_recording" -> ToggleRecordingLocks
      [] t = "cancel_recording" -> CancelRecordingLocks
      [] t = "capture_callback" -> CallbackLocks

\* the thread starts a pass
LockPass(t) ==
    /\ locks[t].todo = <<>>
    /\ \E pass \in LockPasses(t) : locks' = [locks EXCEPT ![t].todo = pass]
    /\ UNCHANGED <<rec_limit, callVars, modelVars, programVars, fileVars>>

\* Mutex::lock: the thread waits until nobody holds m
MutexLock(t) ==
    /\ locks[t].todo # <<>> /\ Head(locks[t].todo)[1] = "lock"
    /\ LET m == Head(locks[t].todo)[2]
       IN /\ \A u \in LockThreads : m \notin locks[u].held
          /\ locks' = [locks EXCEPT ![t] = [todo |-> Tail(@.todo), held |-> @.held \cup {m}]]
    /\ UNCHANGED <<rec_limit, callVars, modelVars, programVars, fileVars>>

\* the guard is dropped at the end of its scope
MutexUnlock(t) ==
    /\ locks[t].todo # <<>> /\ Head(locks[t].todo)[1] = "unlock"
    /\ LET m == Head(locks[t].todo)[2]
       IN locks' = [locks EXCEPT ![t] = [todo |-> Tail(@.todo), held |-> @.held \ {m}]]
    /\ UNCHANGED <<rec_limit, callVars, modelVars, programVars, fileVars>>

LockInit == StartupAt(0, FALSE, <<>>, "done")
LockNext == \E t \in LockThreads : LockPass(t) \/ MutexLock(t) \/ MutexUnlock(t)
LockSpec == LockInit /\ [][LockNext]_vars

\* C35: no thread holds the AudioBuffer mutex and the AppState mutex at the same time
C35_BufferAndStateApart ==
    \A t \in LockThreads : ~({"AudioBuffer", "AppState"} \subseteq locks[t].held)

\* the ticker reads the levels under the buffer lock while the partial loop holds the
\* state lock and the Cancel handler waits for it
C35_Witness ==
    /\ locks["ticker"].held = {"ActiveCapture", "AudioBuffer"}
    /\ locks["partial_loop"].held = {"AppState"}
    /\ locks["cancel_recording"].todo # <<>>
    /\ Head(locks["cancel_recording"].todo) = <<"lock", "AppState">>
    /\ locks["toggle_recording"].todo # <<>>

(* ------------------ the preview commands and their state --------------- *)

\* a preview command has taken its pending text and queued its paste
CorrectionCommandTakes ==
    /\ main_pc = "idle" /\ main_pc' = "cmd_paste"
    /\ <<pending_original_text, pending_corrected_text>> # <<<<>>, <<>>>>
    /\ pending_original_text' = <<>> /\ pending_corrected_text' = <<>>

TranslationCommandTakes ==
    /\ main_pc = "idle" /\ main_pc' = "cmd_paste"
    /\ <<pending_source_text, pending_translated_text>> # <<<<>>, <<>>>>
    /\ pending_source_text' = <<>> /\ pending_translated_text' = <<>>

\* C36: accept_corrections and undo_corrections get as far as their paste only while
\* the state is CorrectionPreview, accept_translation and reject_translation only while
\* it is TranslationPreview, and no preview is pasted twice; in every other state the
\* command returns its error and changes nothing
C36_CommandOnlyInItsPreview ==
    /\ [][/\ CorrectionCommandTakes => ds.type = "CorrectionPreview"
          /\ TranslationCommandTakes => ds.type = "TranslationPreview"]_vars
    /\ [](\A i, j \in 1..Len(pastes) :
             (i < j /\ pastes[i].from_rec # 0 /\ pastes[j].from_rec # 0)
                 => pastes[i].from_rec # pastes[j].from_rec)

(* ------------------- the Recording state and the capture --------------- *)

\* a capture is stored in ActiveCapture and the streaming flag is set
CaptureOpen == active_capture # <<>> /\ streaming_active

\* C37: while neither toggle_recording nor cancel_recording is under way, the state is
\* Recording exactly if a capture is open and streaming; and no step of another thread
\* or command moves the state out of Recording while the capture is open
C37_RecordingIffCaptureOpen ==
    /\ [](main_pc = "idle" => (ds.type = "Recording" <=> CaptureOpen))
    /\ [][(main_pc = "idle" /\ main_pc' = "idle" /\ ds.type = "Recording" /\ CaptureOpen)
             => ds'.type = "Recording"]_vars

(* ---------------- the partials shown during a recording ---------------- *)

\* C38: the partial text and the partial translation in a Recording state were computed
\* from the audio, and from a partial text, of the recording that the state belongs to
C38_PartialOfSameRecording ==
    ds.type = "Recording" =>
        /\ ds.partial_text # <<>> => ds.partial_text[1].rec = rec_count
        /\ ds.partial_translation # <<>> => ds.partial_translation[1].rec = rec_count

(* ------------------------------ the overlay ---------------------------- *)

\* the states in which the overlay has something to show
OverlayTypes == {"Recording", "Processing", "Translating", "CorrectionPreview",
                 "TranslationPreview", "Error"}

\* C39: every transition to Idle hides the overlay, and the overlay is visible whenever
\* the state is Recording, Processing, Translating, a preview or Error
C39_OverlayFollowsState ==
    /\ [](ds.type \in OverlayTypes => overlay_visible)
    /\ [][(ds.type # "Idle" /\ ds'.type = "Idle") => ~overlay_visible']_vars

(* ------------------ the writers of the Recording state ----------------- *)

\* one recording with its ticker and its partial loop, while the language and the
\* target language are changed in the settings window; set_language is followed as far
\* as its write of the state
WritersInit == Startup(MaxRecWide, FALSE)
WritersNext ==
    \/ HotkeyRead \/ HotkeyStartCapture \/ HotkeyRecordingState \/ HotkeySpawn
    \/ CaptureAppend \/ LoaderSend \/ AsrRecvLoad \/ LoaderWait \/ LoaderLoaded
    \/ TickerNext
    \/ \E r \in Recs : PartialCheck(r) \/ PartialSnapshot(r) \/ PartialSend(r)
                       \/ PartialWait(r) \/ PartialFlag(r) \/ PartialRead(r)
                       \/ PartialWrite(r) \/ PartialEmit(r)
    \/ AsrRecvPartial \/ AsrDrain \/ AsrDrainEnd \/ AsrRunPartial
    \/ SetLanguageRead \/ SetLanguageWrite
    \/ SetTranslationTargetLang \/ MtSetLanguages
WritersSpec == WritersInit /\ [][WritersNext]_vars

RecordingFields == {"duration_ms", "partial_text", "partial_translation", "source_lang",
                    "target_lang"}

\* the fields of the Recording state that the step changes
FieldsChanged == { f \in RecordingFields : ds'[f] # ds[f] }

TickerWrites == \E r \in Recs : tk_pc[r] = "update" /\ tk_pc'[r] # "update"
PartialLoopWrites == \E r \in Recs : pl_pc[r] = "write" /\ pl_pc'[r] # "write"
SetLanguageWrites == sl_call.pc = "write" /\ sl_call'.pc # "write"
SetTargetWrites == translation_target_lang' # translation_target_lang

====
